--------------------------------- MODULE LoginPage ---------------------------------
(***************************************************************************)
(* The page where a user signs in, with the store that holds the token and *)
(* the user: a tab starts, maybe with the token of another user, asks the  *)
(* server twice who that is, and opens the page, whose modes the user      *)
(* moves between while requests are under way.  The wiki may not be set up *)
(* yet: then the page is the one that sets it up.                          *)
(***************************************************************************)
EXTENDS Naturals

CONSTANT MaxSubmits  \* bound on the requests of the form

VARIABLES
  needs,       \* what the account asks for: "nothing", "code", "enrolment" or "verification"
  oldIsValid,  \* whether the server accepts the token of the other user
  issued,      \* the request that issued the recovery codes that work, 0 for none
  token,       \* "none", "old", or "new"
  signedIn,    \* auth.user: "none", "other" or "self"
  ready,
  me,          \* of both requests for the user of the token: "ready", "asked" or "done", or
               \* "strayed" when the token was another one when the answer came
  opened,      \* whether the page is shown: "no", "loading", "verifying", "yes" or "left"
  target,      \* the route: "login", "reset-password", "verify-email" or "setup"
  mode,        \* "login", "register", "forgot", "reset", "mfa-setup" or "setup"
  requiresTotp,
  busy,
  codes,       \* the recovery codes shown: the request that issued them, 0 for none
  setupToken,  \* whether the page has the token that lets it enrol
  submits,     \* of each request of the form: how far it is, its mode, and what came of it
  disturbed,   \* whether the page moved to another mode, or finished opening, while a request of
               \* the form was under way
  lost         \* whether a request was lost, at most one

loginVars ==
  <<needs, oldIsValid, issued, token, signedIn, ready, me, opened, target, mode, requiresTotp, busy,
    codes, setupToken, submits, disturbed, lost>>
serverVars == <<needs, oldIsValid, issued>>
pageVars == <<mode, requiresTotp, busy, codes, setupToken>>

Submits == 1..MaxSubmits
NoSubmit == [at |-> "ready", mode |-> "none", code |-> FALSE, answer |-> "none"]
Owner == [none |-> "none", old |-> "other", new |-> "self"]

LoginInit ==
  /\ needs \in {"nothing", "code", "enrolment", "verification"}
  /\ issued = 0
  /\ token \in {"none", "old"}
  /\ oldIsValid \in {FALSE, token = "old"}
  /\ signedIn = "none"
  /\ ready = (token = "none")
  /\ me = <<IF ready THEN "done" ELSE "asked", "ready">>
  /\ opened = "no"
  /\ target \in {"login", "reset-password", "verify-email", "setup"}
  /\ target = "setup" => token = "none" /\ needs = "nothing"
  /\ mode = IF target = "setup" THEN "setup" ELSE "login"
  /\ requiresTotp = FALSE /\ busy = FALSE /\ codes = 0 /\ setupToken = FALSE
  /\ submits = [n \in Submits |-> NoSubmit]
  /\ disturbed = FALSE /\ lost = FALSE

-----------------------------------------------------------------------------
\* The store: fetchMe, called when the application starts and by the router's guard.

\* The guard asks again while nothing is known of the user.
GuardFetchesMe ==
  /\ opened = "no"
  /\ ~ready /\ me[2] = "ready"
  /\ me' = [me EXCEPT ![2] = "asked"]
  /\ UNCHANGED <<serverVars, token, signedIn, ready, opened, target, pageVars, submits, disturbed, lost>>

\* The answer is about the token that was sent, the one the tab started with.
Answered(i) == me' = [me EXCEPT ![i] = IF token = "old" THEN "done" ELSE "strayed"]

Known(i) ==
  /\ me[i] = "asked" /\ oldIsValid
  /\ signedIn' = Owner["old"]
  /\ ready' = TRUE
  /\ Answered(i)
  /\ UNCHANGED <<serverVars, token, opened, target, pageVars, submits, disturbed, lost>>

\* Refused, or lost: whatever the error is, the token is dropped.
Unknown(i) ==
  /\ me[i] = "asked"
  /\ ~oldIsValid \/ ~lost
  /\ lost' = (lost \/ oldIsValid)
  /\ token' = "none" /\ signedIn' = "none"
  /\ ready' = TRUE
  /\ Answered(i)
  /\ UNCHANGED <<serverVars, opened, target, pageVars, submits, disturbed>>

\* The guard lets the page open, and what the page loads first comes.
Open ==
  /\ opened = "no"
  /\ me[2] \in {"done", "strayed"} \/ (me[2] = "ready" /\ ready)
  /\ opened' = IF target = "setup" THEN "yes" ELSE "loading"
  /\ UNCHANGED <<serverVars, token, signedIn, ready, me, target, pageVars, submits, disturbed, lost>>

Showing == opened \in {"loading", "verifying", "yes"}
Waiting == \E n \in Submits : submits[n].at \in {"asked", "answered", "setting up"}

Mounted ==
  /\ opened = "loading"
  /\ opened' = IF target = "verify-email" THEN "verifying" ELSE "yes"
  /\ mode' = IF target = "reset-password" THEN "reset" ELSE mode
  /\ busy' = (busy \/ target = "verify-email")
  /\ disturbed' = (disturbed \/ Waiting \/ mode = "mfa-setup")
  /\ UNCHANGED <<serverVars, token, signedIn, ready, me, target, requiresTotp, codes, setupToken,
                 submits, lost>>

Verified(isKnown) ==
  /\ opened = "verifying"
  /\ opened' = "yes"
  /\ needs' = IF isKnown /\ needs = "verification" THEN "nothing" ELSE needs
  /\ mode' = IF isKnown THEN "login" ELSE mode
  /\ busy' = FALSE
  /\ disturbed' = (disturbed \/ Waiting \/ mode = "mfa-setup")
  /\ UNCHANGED <<oldIsValid, issued, token, signedIn, ready, me, target, requiresTotp, codes,
                 setupToken, submits, lost>>

-----------------------------------------------------------------------------
\* The form.

Sends(n, m) ==
  /\ Showing /\ ~busy
  /\ submits[n].at = "ready"
  /\ \A k \in Submits : k < n => submits[k].at # "ready"
  /\ submits' = [submits EXCEPT ![n] =
       [at |-> "asked", mode |-> m, code |-> mode = "login" /\ requiresTotp, answer |-> "none"]]
  /\ busy' = TRUE
  /\ UNCHANGED <<serverVars, token, signedIn, ready, me, opened, target, mode, requiresTotp, codes,
                 setupToken, disturbed, lost>>

Submit(n) ==
  /\ mode = "mfa-setup" => codes = 0 /\ setupToken
  /\ Sends(n, mode)

SignInWithPasskey(n) ==
  /\ mode = "login" /\ ~requiresTotp
  /\ Sends(n, "passkey")

\* The recovery codes have been read.
Continue ==
  /\ Showing /\ ~busy
  /\ mode = "mfa-setup" /\ codes # 0
  /\ busy' = TRUE /\ opened' = "left"
  /\ UNCHANGED <<serverVars, token, signedIn, ready, me, target, mode, requiresTotp, codes,
                 setupToken, submits, disturbed, lost>>

\* Which modes the buttons of a mode lead to, whether a request is under way or not.
Leads ==
  [login |-> {"register", "forgot"}, register |-> {"login"}, forgot |-> {"login"},
   reset |-> {"login"}]

\* Faulty: the buttons are there while the recovery codes are shown.
SwitchModeAlways(next) ==
  /\ Showing
  /\ mode # next
  /\ mode' = next
  /\ codes' = 0 /\ requiresTotp' = FALSE /\ busy' = FALSE
  /\ disturbed' = (disturbed \/ Waiting)
  /\ UNCHANGED <<serverVars, token, signedIn, ready, me, opened, target, setupToken, submits, lost>>

SwitchMode(next) ==
  /\ Showing
  /\ mode \in DOMAIN Leads /\ next \in Leads[mode]
  /\ mode' = next
  /\ codes' = 0 /\ requiresTotp' = FALSE /\ busy' = FALSE
  /\ disturbed' = (disturbed \/ Waiting)
  /\ UNCHANGED <<serverVars, token, signedIn, ready, me, opened, target, setupToken, submits, lost>>

ReturnToPassword ==
  /\ Showing /\ mode = "login" /\ requiresTotp
  /\ requiresTotp' = FALSE
  /\ UNCHANGED <<serverVars, token, signedIn, ready, me, opened, target, mode, busy, codes,
                 setupToken, submits, disturbed, lost>>

-----------------------------------------------------------------------------
\* The server, and its answers.

Reply(n) ==
  CASE submits[n].mode = "login" /\ needs = "code" /\ ~submits[n].code -> "code required"
    [] submits[n].mode = "login" /\ needs = "enrolment" -> "enrolment"
    [] submits[n].mode = "login" /\ needs = "verification" -> "refused"
    [] submits[n].mode = "register" /\ needs = "verification" -> "verification"
    [] submits[n].mode = "register" /\ needs # "nothing" -> "refused"
    [] submits[n].mode = "forgot" -> "sent"
    [] submits[n].mode = "reset" -> "reset"
    [] submits[n].mode = "mfa-setup" -> "enabled"
    [] OTHER -> "signed in"

Serve(n) ==
  /\ submits[n].at = "asked"
  /\ submits' = [submits EXCEPT ![n].at = "answered", ![n].answer = Reply(n)]
  /\ needs' = IF Reply(n) = "enabled" THEN "code" ELSE needs
  /\ issued' = IF Reply(n) = "enabled" THEN n ELSE issued
  /\ UNCHANGED <<oldIsValid, token, signedIn, ready, me, opened, target, pageVars, disturbed, lost>>

Is(n, answer) == submits[n].at = "answered" /\ submits[n].answer = answer
Ends(n) == submits' = [submits EXCEPT ![n].at = "done"]

SignedIn(n) ==
  /\ Is(n, "signed in")
  /\ token' = "new" /\ signedIn' = "self"
  /\ opened' = "left"
  /\ Ends(n)
  /\ UNCHANGED <<serverVars, ready, me, target, pageVars, disturbed, lost>>

\* The account must enrol: the page asks for a secret before it shows the form for the code.
MustEnrol(n) ==
  /\ Is(n, "enrolment")
  /\ token' = "none" /\ signedIn' = "none"
  /\ setupToken' = TRUE
  /\ submits' = [submits EXCEPT ![n].at = "setting up"]
  /\ UNCHANGED <<serverVars, ready, me, opened, target, mode, requiresTotp, busy, codes, disturbed, lost>>

SetUp(n) ==
  /\ submits[n].at = "setting up"
  /\ mode' = "mfa-setup" /\ codes' = 0 /\ busy' = FALSE
  /\ Ends(n)
  /\ UNCHANGED <<serverVars, token, signedIn, ready, me, opened, target, requiresTotp, setupToken,
                 disturbed, lost>>

Enabled(n) ==
  /\ Is(n, "enabled")
  /\ token' = "new" /\ signedIn' = "self"
  /\ codes' = n /\ busy' = FALSE
  /\ Ends(n)
  /\ UNCHANGED <<serverVars, ready, me, opened, target, mode, requiresTotp, setupToken, disturbed, lost>>

\* A link is on its way, or the password is another one.
Noticed(n) ==
  /\ Is(n, "sent") \/ Is(n, "reset") \/ Is(n, "verification")
  /\ mode' = IF Is(n, "sent") THEN mode ELSE "login"
  /\ token' = IF Is(n, "verification") THEN "none" ELSE token
  /\ signedIn' = IF Is(n, "verification") THEN "none" ELSE signedIn
  /\ busy' = FALSE
  /\ Ends(n)
  /\ UNCHANGED <<serverVars, ready, me, opened, target, requiresTotp, codes, setupToken, disturbed, lost>>

\* catch: the mode is the one of now.
SubmitFails(n) ==
  /\ \/ Is(n, "refused") /\ lost' = lost
     \/ Is(n, "code required") /\ lost' = lost
     \/ submits[n].at \in {"asked", "answered", "setting up"} /\ ~lost /\ lost' = TRUE
  /\ requiresTotp' = (requiresTotp \/ (mode = "login" /\ Is(n, "code required") /\ lost' = lost))
  /\ busy' = FALSE
  /\ submits' = [submits EXCEPT ![n].at = "failed"]
  /\ UNCHANGED <<serverVars, token, signedIn, ready, me, opened, target, mode, codes, setupToken,
                 disturbed>>

LoginNext ==
  \/ GuardFetchesMe
  \/ \E i \in 1..2 : Known(i) \/ Unknown(i)
  \/ Open \/ Mounted \/ \E isKnown \in BOOLEAN : Verified(isKnown)
  \/ \E n \in Submits :
       \/ Submit(n) \/ SignInWithPasskey(n) \/ Serve(n)
       \/ SignedIn(n) \/ MustEnrol(n) \/ SetUp(n) \/ Enabled(n) \/ Noticed(n) \/ SubmitFails(n)
  \/ Continue \/ ReturnToPassword
  \/ \E next \in {"login", "register", "forgot"} : SwitchMode(next)

LoginSpec == LoginInit /\ [][LoginNext]_loginVars

-----------------------------------------------------------------------------
\* The user the store names is the owner of the token it sends, but not when the answer about an
\* earlier token came late; and who signed in stays so, but for the late answer of a mode that was
\* left.
UserOwnsToken ==
  (\A i \in 1..2 : me[i] # "strayed") =>
    /\ signedIn \in {"none", Owner[token]}
    /\ opened = "left" /\ ~disturbed => token = "new" /\ signedIn = "self"

\* The form is busy while a request is under way, unless the page moved on meanwhile.
BusyWhileWaiting == Waiting /\ ~disturbed => busy \/ opened = "left"

\* The recovery codes shown are those that work, and they are shown until they have been read.
CodesAreShown ==
  ~disturbed =>
    /\ codes \in {0, issued}
    /\ \A n \in Submits :
         n = issued /\ submits[n].at = "done" /\ opened # "left" => codes = n

LoginInv == UserOwnsToken /\ BusyWhileWaiting /\ CodesAreShown
=================================================================================
