------------------------------- MODULE Console -------------------------------
(***************************************************************************)
(* The session of the console: the browser tabs of one user share the      *)
(* token in localStorage (src/frontend/src/lib/api.ts, pages/Login.tsx,    *)
(* components/Layout.tsx, components/ProtectedRoute.tsx), the server       *)
(* checks it on every request (src/backend/middleware/auth.go,             *)
(* handlers/auth.go).                                                      *)
(*                                                                         *)
(* A request carries the token stored when it is sent.  Whatever request   *)
(* is answered 401, the tab that hears it empties the storage and loads    *)
(* the login page anew.                                                    *)
(***************************************************************************)
EXTENDS Integers, FiniteSets

CONSTANTS
  Tabs,        \* browser tabs
  MaxTokens,   \* bound: tokens issued, the one stored at first included
  MaxActs,     \* bound: acts of the user, over all tabs
  MaxFaults    \* bound: requests that fail otherwise than with 401

ASSUME TabsAssumption == IsFiniteSet(Tabs)
ASSUME BoundsAssumption == MaxTokens \in Nat \ {0} /\ {MaxActs, MaxFaults} \subseteq Nat

VARIABLES
  token,    \* localStorage "token": the number of a token, 0 for none; "user"
            \* is stored and removed with it
  issued,   \* tokens issued so far: 1..issued
  valid,    \* those that have not expired
  at,       \* at[b]: what tab b shows: a page that polls (dashboard, tasks), a
            \* quiet one, or the login page
  login,    \* login[b]: its login request
  requests, \* its other requests: tab, token sent, whether refused
  used      \* acts and faults so far

vars == <<token, issued, valid, at, login, requests, used>>
server == <<issued, valid>>

Pages == {"polling", "quiet"}
NoLogin == [pc |-> "idle", token |-> 0]
Act == used.acts < MaxActs /\ used' = [used EXCEPT !.acts = @ + 1]
Fault == used.faults < MaxFaults /\ used' = [used EXCEPT !.faults = @ + 1]

TypeOK ==
  /\ issued \in 0..MaxTokens /\ valid \subseteq 1..issued
  /\ token \in 0..issued
  /\ at \in [Tabs -> Pages \cup {"login"}]
  /\ login \in [Tabs -> [pc : {"idle", "sent", "ok", "refused", "failed"}, token : 0..issued]]
  /\ \A b \in Tabs : at[b] # "login" => login[b] = NoLogin
  /\ requests \subseteq [tab : Tabs, token : 0..issued, refused : BOOLEAN]
  /\ used \in [acts : 0..MaxActs, faults : 0..MaxFaults]

\* A token is stored and some tab works with it; the others are anywhere.
Init ==
  /\ token = 1 /\ issued = 1 /\ valid = {1}
  /\ at \in [Tabs -> Pages \cup {"login"}] /\ \E b \in Tabs : at[b] \in Pages
  /\ login = [b \in Tabs |-> NoLogin]
  /\ requests = {}
  /\ used = [acts |-> 0, faults |-> 0]

-----------------------------------------------------------------------------
(* Pages.                                                                  *)

\* The request interceptor adds the token there is.
Request(b, stored) == [tab |-> b, token |-> stored, refused |-> FALSE]
Ask(b) == requests' = requests \cup {Request(b, token)}

\* ProtectedRoute looks for a token when the layout is mounted, and only then;
\* a page that is mounted asks for its data.
Enter(b, page, stored, heard) ==
  IF page = "login" \/ stored = 0
  THEN at' = [at EXCEPT ![b] = "login"] /\ requests' = heard
  ELSE at' = [at EXCEPT ![b] = page] /\ requests' = heard \cup {Request(b, stored)}

\* The answers a tab waits for are not heard after a page load.
Unloaded(b) == {r \in requests : r.tab # b}
StopLogin(b) == login' = [login EXCEPT ![b] = NoLogin]

\* An address is opened, or the page loaded anew.
Open(b, page) ==
  /\ Act
  /\ Enter(b, page, token, Unloaded(b))
  /\ StopLogin(b)
  /\ UNCHANGED <<token, server>>

\* A link of the sidebar.  The page mounted asks for its data; answers to the
\* page before are ignored, but a 401 among them is heard.
Navigate(b, page) ==
  /\ Act
  /\ at[b] \in Pages
  /\ at' = [at EXCEPT ![b] = page]
  /\ Ask(b)
  /\ UNCHANGED <<token, server, login>>

\* An interval fires; on a quiet page only the user causes requests.
Poll(b) ==
  /\ at[b] = "polling"
  /\ Ask(b)
  /\ UNCHANGED <<token, server, at, login, used>>

\* handleLogout: no page load, so that what is under way is still heard.
Logout(b) ==
  /\ Act
  /\ at[b] \in Pages
  /\ token' = 0
  /\ at' = [at EXCEPT ![b] = "login"]
  /\ UNCHANGED <<server, login, requests>>

-----------------------------------------------------------------------------
(* The server and its answers.                                             *)

\* JWTAuth.  Any other answer, and none, is nothing to the session.
Answer(r) ==
  /\ ~r.refused
  /\ \/ /\ r.token \in valid
        /\ requests' = requests \ {r}
        /\ UNCHANGED used
     \/ /\ r.token \notin valid
        /\ requests' = (requests \ {r}) \cup {[r EXCEPT !.refused = TRUE]}
        /\ UNCHANGED used
     \/ /\ Fault
        /\ requests' = requests \ {r}
  /\ UNCHANGED <<token, server, at, login>>

Expire(t) ==
  /\ t \in valid
  /\ valid' = valid \ {t}
  /\ UNCHANGED <<token, issued, at, login, requests, used>>

\* Mutant: no page load where there was nothing to remove.
InterceptorOnce(b) ==
  /\ token' = 0
  /\ StopLogin(b)
  /\ IF token # 0 THEN requests' = Unloaded(b) /\ at' = [at EXCEPT ![b] = "login"]
     ELSE requests' = {r \in requests : ~(r.tab = b /\ r.refused)} /\ UNCHANGED at

\* The response interceptor on a 401, whatever token it was for.
Interceptor(b) ==
  /\ token' = 0
  /\ StopLogin(b)
  /\ requests' = Unloaded(b)
  /\ at' = [at EXCEPT ![b] = "login"]

Refused(r) ==
  /\ r.refused
  /\ Interceptor(r.tab)
  /\ UNCHANGED <<server, used>>

-----------------------------------------------------------------------------
(* Login.                                                                  *)

\* handleSubmit; the button is disabled while a login is under way.
SubmitLogin(b) ==
  /\ Act
  /\ at[b] = "login" /\ login[b].pc = "idle"
  /\ login' = [login EXCEPT ![b].pc = "sent"]
  /\ UNCHANGED <<token, server, at, requests>>

AnswerLogin(b) ==
  /\ login[b].pc = "sent"
  /\ \/ /\ issued < MaxTokens
        /\ issued' = issued + 1
        /\ valid' = valid \cup {issued'}
        /\ login' = [login EXCEPT ![b] = [pc |-> "ok", token |-> issued']]
        /\ UNCHANGED used
     \/ /\ login' = [login EXCEPT ![b].pc = "refused"]
        /\ UNCHANGED <<issued, valid, used>>
     \/ /\ Fault
        /\ login' = [login EXCEPT ![b].pc = "failed"]
        /\ UNCHANGED <<issued, valid>>
  /\ UNCHANGED <<token, at, requests>>

\* Mutant: the finally clause is missing.
LoggedInStillLoading(b) ==
  /\ login[b].pc = "ok"
  /\ token' = login[b].token
  /\ Enter(b, "polling", token', requests)
  /\ UNCHANGED <<server, login, used>>

\* The token is stored, then the layout is mounted with the dashboard.
LoggedIn(b) ==
  /\ login[b].pc = "ok"
  /\ token' = login[b].token
  /\ Enter(b, "polling", token', requests)
  /\ StopLogin(b)
  /\ UNCHANGED <<server, used>>

\* A wrong password is a 401, too: it ends the session another tab may have.
LoginRefused(b) ==
  /\ login[b].pc = "refused"
  /\ Interceptor(b)
  /\ UNCHANGED <<server, used>>

LoginFailed(b) ==
  /\ login[b].pc = "failed"
  /\ StopLogin(b)
  /\ UNCHANGED <<token, server, at, requests, used>>

-----------------------------------------------------------------------------

HearLogin(b) == LoggedIn(b) \/ LoginRefused(b) \/ LoginFailed(b)

Next ==
  \/ \E b \in Tabs :
       \/ \E page \in Pages \cup {"login"} : Open(b, page)
       \/ \E page \in Pages : Navigate(b, page)
       \/ Poll(b) \/ Logout(b)
       \/ SubmitLogin(b) \/ AnswerLogin(b) \/ HearLogin(b)
  \/ \E r \in requests : Answer(r) \/ Refused(r)
  \/ \E t \in valid : Expire(t)

Spec == Init /\ [][Next]_vars

\* Intervals fire, requests are answered, answers are heard, in every tab.
\* Tokens need not expire and users need not do anything.
Fairness ==
  \A b \in Tabs :
    /\ WF_vars(Poll(b))
    /\ WF_vars(\E r \in requests : r.tab = b /\ Answer(r))
    /\ WF_vars(\E r \in requests : r.tab = b /\ Refused(r))
    /\ WF_vars(AnswerLogin(b)) /\ WF_vars(HearLogin(b))

FairSpec == Spec /\ Fairness

-----------------------------------------------------------------------------
(* Properties.                                                             *)

\* A tab on a page that polls does not stay there with a token that is gone
\* or has expired: it gets to the login page, also when it was another tab
\* that logged out or heard the 401 first, unless the user leaves the page or
\* a valid token is stored meanwhile.  ProtectedRoute does not see to it: it
\* looks only once.
DeadSessionLeavesConsole ==
  \A b \in Tabs :
    (at[b] = "polling" /\ token \notin valid) ~> (at[b] # "polling" \/ token \in valid)

=============================================================================
