------------------------------- MODULE LinkPreviews -------------------------------
(***************************************************************************)
(* services/link-previews.ts: the preview of a link and the latest videos  *)
(* of a channel.  Both are kept in one table, a row for each URL, until    *)
(* they expire; what is not there is fetched from other servers, which     *)
(* redirect, refuse, name a second text (oEmbed) and change their pages    *)
(* meanwhile.  What a server says is given by LinkReplies; of a text only  *)
(* its edition, its image and its number of videos are kept.               *)
(***************************************************************************)
EXTENDS Naturals, Sequences

CONSTANTS
  Previewers,     \* requests that may be under way at once
  LinkReplies,    \* what every URL answers, see Reply
  ChannelFeed,    \* the URL of the feed of the channel
  FeedVideos,     \* the entries of the feed that have an id and a title
  MaxVideos, MaxRedirects, UnfurlTtl, LatestTtl,
  ChangingTexts,  \* the URLs whose text is replaced now and then
  MaxPreviewTime, MaxEditions,
  PreviewModes    \* of each previewer, the links it asks to preview, each with its number of
                  \* tracking parameters, and the limits it asks of the channel; and
                  \* slowBody: a text may take longer than a fetch is given

VARIABLES
  previewMode, previewClock,
  editions,   \* of every URL, the times at which its text was replaced
  previews,   \* the table link_previews
  unfurls,    \* the request of every previewer
  lastPreview \* and what it was answered last

previewVars == <<previewMode, previewClock, editions, previews, unfurls, lastPreview>>

Urls == DOMAIN LinkReplies
Smaller(a, b) == IF a < b THEN a ELSE b
Larger(a, b) == IF a < b THEN b ELSE a

\* A server redirects to another URL, refuses (a status, no Location, another protocol, no
\* reply), or sends a text, which may be too long, name an oEmbed URL, carry a restricted
\* rating, and always names an image.  Some hosts are not public.
Reply(u) == LinkReplies[u]
Public(u) == Reply(u).public
Restricted(u) == Reply(u).restricted
Embeds(u) == Reply(u).gives = "text" /\ Reply(u).to # u
TooLong(u) == Reply(u).long

\* Parameters are deleted while they are listed, so of n tracking parameters in a row every
\* second one stays: the key of a link is its page and how many stayed.
CleanHttpUrl(link) == <<link[1], link[2] \div 2>>
FeedKey == <<ChannelFeed, 0>>
Keys ==
  {FeedKey} \union
  {CleanHttpUrl(link) : link \in UNION {mode.links[c] : c \in Previewers, mode \in PreviewModes}}

NoPreview == [kind |-> "none"]
Resting == [step |-> "rest"]

PreviewTypeOK ==
  /\ previewMode \in PreviewModes /\ previewClock \in 0..MaxPreviewTime
  /\ \A u \in Urls : \A n \in DOMAIN editions[u] : editions[u][n] \in 0..previewClock
  /\ \A k \in Keys : previews[k].kind \in {"none", "unfurl", "youtube-latest"}
  /\ \A c \in Previewers : unfurls[c].step \in {"rest", "find", "contact", "reply", "body", "save"}

PreviewInit ==
  /\ previewMode \in PreviewModes /\ previewClock = 0
  /\ editions = [u \in Urls |-> <<>>]
  /\ previews = [k \in Keys |-> NoPreview]
  /\ unfurls = [c \in Previewers |-> Resting]
  /\ lastPreview = [c \in Previewers |-> NoPreview]

\* What of a list is sent: the first videos, as many as were asked for.
Listed(stored, limit) == Smaller(stored, limit)
StoredVideos == Smaller(FeedVideos, MaxVideos)

Answered(c, row) ==
  /\ lastPreview' = [lastPreview EXCEPT ![c] =
       [kind |-> row.kind, asked |-> unfurls[c].kind, wanted |-> unfurls[c].limit,
        from |-> row.from, edition |-> row.edition,
        videos |-> Listed(row.videos, unfurls[c].limit), at |-> previewClock]]
  /\ unfurls' = [unfurls EXCEPT ![c] = Resting]
Refused(c) ==
  /\ unfurls' = [unfurls EXCEPT ![c] = Resting] /\ UNCHANGED lastPreview
Proceeds(c, request) ==
  /\ unfurls' = [unfurls EXCEPT ![c] = request] /\ UNCHANGED lastPreview

\* A previewer may write pages if it previews a link (canUsePreview); others are refused at once.
Begins(c, kind, key, limit) ==
  /\ unfurls[c] = Resting
  /\ unfurls' = [unfurls EXCEPT ![c] = [step |-> "find", kind |-> kind, key |-> key, limit |-> limit]]
  /\ lastPreview' = [lastPreview EXCEPT ![c] = NoPreview]
  /\ UNCHANGED <<previewMode, previewClock, editions, previews>>
Unfurl(c, link) == Begins(c, "unfurl", CleanHttpUrl(link), 1)
YoutubeLatest(c, limit) ==
  Begins(c, "youtube-latest", FeedKey, Larger(1, Smaller(limit, MaxVideos)))

CachedOfAnyKind(row, kind) == row.kind # "none" /\ row.expiresAt > previewClock
\* A row of the other kind, or one that has expired, is as good as none.
Cached(row, kind) == row.kind = kind /\ row.expiresAt > previewClock

\* The row of the URL, or the first URL to fetch.
FindByUrl(c) ==
  LET r == unfurls[c]
      row == previews[r.key]
  IN /\ r.step = "find"
     /\ IF Cached(row, r.kind)
        THEN Answered(c, row)
        ELSE Proceeds(c, [step |-> "contact", kind |-> r.kind, key |-> r.key, limit |-> r.limit,
                          url |-> r.key[1], redirects |-> 0, of |-> "text", from |-> r.key[1],
                          edition |-> 0, since |-> 0, fetchedAt |-> 0])
     /\ UNCHANGED <<previewMode, previewClock, editions, previews>>

\* fetchText failed: a text that cannot be had is refused, an oEmbed is done without.
FetchFails(c) ==
  LET r == unfurls[c]
  IN IF r.of = "text" THEN Refused(c)
     ELSE Proceeds(c, [r EXCEPT !.step = "save", !.fetchedAt = previewClock])

\* The target has to be public before it is contacted; then its time runs.
Contact(c) ==
  LET r == unfurls[c]
  IN /\ r.step = "contact"
     /\ IF Public(r.url) THEN Proceeds(c, [r EXCEPT !.step = "reply", !.since = previewClock])
        ELSE FetchFails(c)
     /\ UNCHANGED <<previewMode, previewClock, editions, previews>>

FollowsRedirect(c) ==
  LET r == unfurls[c]
  IN IF r.redirects = MaxRedirects THEN FetchFails(c)
     ELSE Proceeds(c, [r EXCEPT !.step = "contact", !.url = Reply(r.url).to, !.redirects = @ + 1])

\* The reply: a redirect is followed, a refusal fails, a text is read.
Replies(c) ==
  LET r == unfurls[c]
  IN /\ r.step = "reply"
     /\ \/ Reply(r.url).gives = "redirect" /\ FollowsRedirect(c)
        \/ Reply(r.url).gives = "error" /\ FetchFails(c)
        \/ /\ Reply(r.url).gives = "text"
           /\ Proceeds(c, IF r.of = "oembed" THEN [r EXCEPT !.step = "body"]
                          ELSE [r EXCEPT !.step = "body", !.from = r.url,
                                         !.edition = Len(editions[r.url])])
     /\ UNCHANGED <<previewMode, previewClock, editions, previews>>

\* The eight seconds are over, or the connection broke, before there was a reply.
TimesOut(c) ==
  /\ unfurls[c].step = "reply" /\ FetchFails(c)
  /\ UNCHANGED <<previewMode, previewClock, editions, previews>>

\* The text is there, or as much of it as is read: that of a page may name an oEmbed, which is
\* fetched like it.
ReadText(c) ==
  LET r == unfurls[c]
      embed == r.kind = "unfurl" /\ r.of = "text" /\ Embeds(r.from)
  IN /\ r.step = "body"
     /\ IF TooLong(r.url) THEN FetchFails(c)
        ELSE Proceeds(c, IF embed
                         THEN [r EXCEPT !.step = "contact", !.url = Reply(r.from).to,
                                        !.redirects = 0, !.of = "oembed"]
                         ELSE [r EXCEPT !.step = "save", !.fetchedAt = previewClock])
     /\ UNCHANGED <<previewMode, previewClock, editions, previews>>

\* The name of a host is not resolved, or the connection breaks while the text comes: neither
\* is caught, and the whole request is rejected, for an oEmbed too.
Breaks(c) ==
  /\ unfurls[c].step \in {"contact", "body"} /\ Refused(c)
  /\ UNCHANGED <<previewMode, previewClock, editions, previews>>

TtlOf(kind) == IF kind = "unfurl" THEN UnfurlTtl ELSE LatestTtl
\* The image is that of the page, or that of the first video.
ImageOf(r) == IF r.kind = "unfurl" THEN ~Restricted(r.from) ELSE StoredVideos > 0
\* A list is kept whole, however many of it were asked for.
VideosKeptAsAsked(r) == IF r.kind = "unfurl" THEN 0 ELSE Listed(StoredVideos, r.limit)
VideosKept(r) == IF r.kind = "unfurl" THEN 0 ELSE StoredVideos

\* The row replaces that of the URL, whatever it is and however it came there.
Upsert(c) ==
  LET r == unfurls[c]
      row == [kind |-> r.kind, from |-> r.from, edition |-> r.edition, image |-> ImageOf(r),
              videos |-> VideosKept(r), expiresAt |-> r.fetchedAt + TtlOf(r.kind)]
  IN /\ r.step = "save"
     /\ previews' = [previews EXCEPT ![r.key] = row]
     /\ Answered(c, row)
     /\ UNCHANGED <<previewMode, previewClock, editions>>

\* Another server replaces its text.
Republish(u) ==
  /\ Len(editions[u]) < MaxEditions
  /\ editions' = [editions EXCEPT ![u] = Append(@, previewClock)]
  /\ UNCHANGED <<previewMode, previewClock, previews, unfurls, lastPreview>>

\* A fetch is given one unit of time, the database none.  A text that has begun to come is
\* not timed any more: in slowBody it takes as long as it likes.
Patient(r) ==
  \/ r.step = "rest"
  \/ r.step \in {"reply", "body"} /\ r.since = previewClock
  \/ r.step = "body" /\ previewMode.slowBody
PreviewTick ==
  /\ previewClock < MaxPreviewTime
  /\ \A c \in Previewers : Patient(unfurls[c])
  /\ previewClock' = previewClock + 1
  /\ UNCHANGED <<previewMode, editions, previews, unfurls, lastPreview>>

PreviewNext ==
  \/ \E c \in Previewers :
       \/ \E link \in previewMode.links[c] : Unfurl(c, link)
       \/ \E n \in previewMode.limits[c] : YoutubeLatest(c, n)
       \/ FindByUrl(c) \/ Contact(c) \/ Replies(c) \/ TimesOut(c) \/ ReadText(c) \/ Breaks(c)
       \/ Upsert(c)
  \/ \E u \in ChangingTexts : Republish(u)
  \/ PreviewTick

\* Until when the edition of a text was the one to be had.
ReplacedAt(u, edition) ==
  IF edition < Len(editions[u]) THEN editions[u][edition + 1] ELSE previewClock

\* How long before its row was written a text may have been read: its own fetch, and those
\* of the oEmbed it names.
FetchTime(u) == 1 + IF Embeds(u) THEN MaxRedirects + 1 ELSE 0

\* An answer is of the kind that was asked for, and of a text that was to be had no longer
\* ago than it may be kept and was fetched, even if requests of both kinds and of the same
\* link overtake each other (link-previews.ts 235-270, 341-386, 435-459).
AnswersAreRecent ==
  \A c \in Previewers :
    LET a == lastPreview[c]
    IN a.kind # "none" =>
         /\ a.kind = a.asked
         /\ \/ previewMode.slowBody
            \/ ReplacedAt(a.from, a.edition) + TtlOf(a.kind) + FetchTime(a.from) > a.at

\* A list has as many videos as were asked for, if the feed has, whoever fetched it and for
\* what limit (link-previews.ts 251-270, 424-460).
ListsAreWhole ==
  \A c \in Previewers :
    LET a == lastPreview[c]
    IN a.kind = "youtube-latest" => a.videos >= 1 /\ a.videos = Listed(StoredVideos, a.wanted)

\* Whatever redirects and oEmbeds name, only public hosts are contacted, each text after a
\* bounded number of redirects (link-previews.ts 277-333).
ContactsAreBounded ==
  \A c \in Previewers :
    LET r == unfurls[c]
    IN r.step \in {"reply", "body"} => Public(r.url) /\ r.redirects <= MaxRedirects

\* Of restricted pages no image is kept (link-previews.ts 188-202, 362-364).
RestrictedHaveNoImage ==
  \A k \in Keys : previews[k].kind = "unfurl" => ~(Restricted(previews[k].from) /\ previews[k].image)

PreviewInv ==
  PreviewTypeOK /\ AnswersAreRecent /\ ListsAreWhole /\ ContactsAreBounded /\ RestrictedHaveNoImage

=============================================================================
