---------------------------- MODULE ConsoleProofs ----------------------------
(***************************************************************************)
(* Proofs about Console, for every set of tabs and every number of tokens, *)
(* acts and faults: type correctness, and what a 401 that waits to be      *)
(* heard says of the token it was for.  TypeOK is inductive as it stands;  *)
(* its parts are proved one by one.                                        *)
(***************************************************************************)
EXTENDS Console, TLAPS

LoginPcs == {"idle", "sent", "ok", "refused", "failed"}

Tokens == issued \in 0..MaxTokens /\ valid \subseteq 1..issued /\ token \in 0..issued
Shown == at \in [Tabs -> Pages \cup {"login"}]
Logins ==
  /\ login \in [Tabs -> [pc : LoginPcs, token : 0..issued]]
  /\ \A b \in Tabs : at[b] # "login" => login[b] = NoLogin
Asked == requests \subseteq [tab : Tabs, token : 0..issued, refused : BOOLEAN]
Counted == used \in [acts : 0..MaxActs, faults : 0..MaxFaults]

LEMMA TypeParts == Tokens' /\ Shown' /\ Logins' /\ Asked' /\ Counted' => TypeOK'
BY DEF TypeOK, Tokens, Shown, Logins, Asked, Counted, LoginPcs

(***************************************************************************)
(* What has been refused was sent with a token that is not valid now       *)
(* either: none is issued twice (auth.go:13-48, api.ts:18-30).             *)
(***************************************************************************)
RefusedIsDead == \A r \in requests : r.refused => r.token \notin valid

-----------------------------------------------------------------------------
(* Parts of a step.                                                        *)

LEMMA InitType == Init => TypeOK /\ RefusedIsDead
BY BoundsAssumption
DEF Init, TypeOK, RefusedIsDead, NoLogin

LEMMA ActCounts == TypeOK /\ Act => Counted'
BY BoundsAssumption DEF TypeOK, Act, Counted

LEMMA FaultCounts == TypeOK /\ Fault => Counted'
BY BoundsAssumption DEF TypeOK, Fault, Counted

\* A request is sent with a token there has been, and is not refused yet.
LEMMA RequestType ==
  ASSUME NEW b \in Tabs, NEW n, NEW stored \in 0..n
  PROVE  /\ Request(b, stored) \in [tab : Tabs, token : 0..n, refused : BOOLEAN]
         /\ ~Request(b, stored).refused
BY DEF Request

\* To enter a page keeps what is heard and adds one request at the most.
LEMMA EnterType ==
  ASSUME TypeOK, RefusedIsDead, NEW b \in Tabs, NEW page \in Pages \cup {"login"},
         NEW stored \in 0..issued, NEW heard \in SUBSET requests,
         Enter(b, page, stored, heard), UNCHANGED server
  PROVE  /\ Shown' /\ Asked' /\ RefusedIsDead'
         /\ \A c \in Tabs \ {b} : at'[c] = at[c]
<1>1. /\ requests' \subseteq heard \cup {Request(b, stored)}
      /\ \E p \in Pages \cup {"login"} : at' = [at EXCEPT ![b] = p]
  BY DEF Enter
<1>2. Shown' /\ \A c \in Tabs \ {b} : at'[c] = at[c]
  BY <1>1 DEF TypeOK, Shown
<1>3. /\ Request(b, stored) \in [tab : Tabs, token : 0..issued, refused : BOOLEAN]
      /\ ~Request(b, stored).refused
  BY RequestType
<1>4. Asked'
  BY <1>1, <1>3 DEF TypeOK, Asked, server
<1>5. RefusedIsDead'
  BY <1>1, <1>3 DEF RefusedIsDead, server
<1> QED
  BY <1>2, <1>4, <1>5

\* A 401 empties the storage and loads the login page.
LEMMA InterceptorType ==
  ASSUME TypeOK, RefusedIsDead, NEW b \in Tabs, Interceptor(b), UNCHANGED <<server, used>>
  PROVE  TypeOK' /\ RefusedIsDead'
<1>1. Tokens' /\ Counted'
  BY DEF TypeOK, Interceptor, server, Tokens, Counted
<1>2. Shown'
  BY DEF TypeOK, Interceptor, Shown
<1>3. Logins'
  BY DEF TypeOK, Interceptor, StopLogin, NoLogin, server, Logins, LoginPcs
<1>4. Asked' /\ RefusedIsDead'
  BY DEF TypeOK, RefusedIsDead, Interceptor, Unloaded, server, Asked
<1> QED
  BY <1>1, <1>2, <1>3, <1>4, TypeParts

-----------------------------------------------------------------------------
(* Pages.                                                                  *)

LEMMA OpenType ==
  ASSUME TypeOK, RefusedIsDead, NEW b \in Tabs, NEW page \in Pages \cup {"login"},
         Open(b, page)
  PROVE  TypeOK' /\ RefusedIsDead'
<1>1. Tokens' /\ Counted'
  BY ActCounts DEF TypeOK, Open, server, Tokens
<1>2. /\ Enter(b, page, token, Unloaded(b)) /\ StopLogin(b)
      /\ UNCHANGED <<token, issued, valid>>
  BY DEF Open, server
<1>3. token \in 0..issued /\ Unloaded(b) \in SUBSET requests
  BY DEF TypeOK, Unloaded
<1>4. /\ Shown' /\ Asked' /\ RefusedIsDead'
      /\ \A c \in Tabs \ {b} : at'[c] = at[c]
  BY <1>2, <1>3, EnterType DEF server
<1>5. Logins'
  BY <1>2, <1>4 DEF TypeOK, StopLogin, NoLogin, Logins, LoginPcs
<1> QED
  BY <1>1, <1>4, <1>5, TypeParts

LEMMA NavigateType ==
  ASSUME TypeOK, RefusedIsDead, NEW b \in Tabs,
         (\E page \in Pages : Navigate(b, page)) \/ Poll(b)
  PROVE  TypeOK' /\ RefusedIsDead'
<1>1. /\ Ask(b) /\ UNCHANGED <<token, issued, valid, login>>
      /\ at[b] \in Pages
      /\ \E page \in Pages : at' = [at EXCEPT ![b] = page]
  BY DEF Navigate, Poll, server, Pages, TypeOK
<1>2. Tokens'
  BY <1>1 DEF TypeOK, Tokens
<1>3. Counted'
  BY ActCounts DEF TypeOK, Navigate, Poll, Counted
<1>4. Shown'
  BY <1>1 DEF TypeOK, Shown
<1>5. Logins'
  BY <1>1 DEF TypeOK, Logins, LoginPcs, Pages
<1>6. /\ Request(b, token) \in [tab : Tabs, token : 0..issued, refused : BOOLEAN]
      /\ ~Request(b, token).refused
  BY RequestType DEF TypeOK
<1>7. Asked' /\ RefusedIsDead'
  BY <1>1, <1>6 DEF TypeOK, RefusedIsDead, Ask, Asked
<1> QED
  BY <1>2, <1>3, <1>4, <1>5, <1>7, TypeParts

LEMMA LogoutType ==
  ASSUME TypeOK, RefusedIsDead, NEW b \in Tabs, Logout(b)
  PROVE  TypeOK' /\ RefusedIsDead'
<1>1. Tokens' /\ Counted'
  BY ActCounts DEF TypeOK, Logout, server, Tokens
<1>2. Shown' /\ Logins'
  BY DEF TypeOK, Logout, server, Shown, Logins, LoginPcs
<1>3. Asked' /\ RefusedIsDead'
  BY DEF TypeOK, RefusedIsDead, Logout, server, Asked
<1> QED
  BY <1>1, <1>2, <1>3, TypeParts

-----------------------------------------------------------------------------
(* The server and its answers.                                             *)

\* Refused is only what is not valid, when it is answered.
LEMMA AnswerType ==
  ASSUME TypeOK, RefusedIsDead, NEW r \in requests, Answer(r)
  PROVE  TypeOK' /\ RefusedIsDead'
<1>1. UNCHANGED <<token, issued, valid, at, login>>
  BY DEF Answer, server
<1>2. Tokens' /\ Shown' /\ Logins'
  BY <1>1 DEF TypeOK, Tokens, Shown, Logins, LoginPcs
<1>3. Counted'
  BY FaultCounts DEF TypeOK, Answer, Counted
<1> DEFINE no == [r EXCEPT !.refused = TRUE]
<1>4. r \in [tab : Tabs, token : 0..issued, refused : BOOLEAN]
  BY DEF TypeOK
<1>5. no \in [tab : Tabs, token : 0..issued, refused : BOOLEAN] /\ no.token = r.token
  BY <1>4
<1>6. \/ requests' = requests \ {r}
      \/ r.token \notin valid /\ requests' = (requests \ {r}) \cup {no}
  BY DEF Answer
<1> HIDE DEF no
<1>7. Asked' /\ RefusedIsDead'
  BY <1>1, <1>5, <1>6 DEF TypeOK, RefusedIsDead, Asked
<1> QED
  BY <1>2, <1>3, <1>7, TypeParts

LEMMA ExpireType ==
  ASSUME TypeOK, RefusedIsDead, NEW t \in valid, Expire(t)
  PROVE  TypeOK' /\ RefusedIsDead'
BY DEF TypeOK, RefusedIsDead, Expire

-----------------------------------------------------------------------------
(* Login.                                                                  *)

LEMMA SubmitType ==
  ASSUME TypeOK, RefusedIsDead, NEW b \in Tabs, SubmitLogin(b)
  PROVE  TypeOK' /\ RefusedIsDead'
<1>1. Tokens' /\ Counted'
  BY ActCounts DEF TypeOK, SubmitLogin, server, Tokens
<1>2. Shown' /\ Asked' /\ RefusedIsDead'
  BY DEF TypeOK, RefusedIsDead, SubmitLogin, server, Shown, Asked
<1>3. Logins'
  BY DEF TypeOK, SubmitLogin, server, Logins, LoginPcs
<1> QED
  BY <1>1, <1>2, <1>3, TypeParts

\* The token issued is new: nothing was refused it.
LEMMA AnswerLoginType ==
  ASSUME TypeOK, RefusedIsDead, NEW b \in Tabs, AnswerLogin(b)
  PROVE  TypeOK' /\ RefusedIsDead'
<1>1. login[b].pc = "sent" /\ UNCHANGED <<token, at, requests>>
  BY DEF AnswerLogin
<1>2. at[b] = "login"
  BY <1>1 DEF TypeOK, NoLogin
<1>3. Shown'
  BY <1>1 DEF TypeOK, Shown
<1>4. CASE /\ issued < MaxTokens /\ issued' = issued + 1
           /\ valid' = valid \cup {issued'}
           /\ login' = [login EXCEPT ![b] = [pc |-> "ok", token |-> issued']]
           /\ UNCHANGED used
  <2>1. /\ issued \in Nat /\ issued' \in 0..MaxTokens
        /\ 0..issued \subseteq 0..issued' /\ 1..issued \subseteq 1..issued'
        /\ issued' \in 1..issued' /\ issued' \notin 0..issued
    BY <1>4, BoundsAssumption DEF TypeOK
  <2>2. Tokens' /\ Counted'
    BY <1>1, <1>4, <2>1 DEF TypeOK, Tokens, Counted
  <2>3. Asked'
    BY <1>1, <2>1 DEF TypeOK, Asked
  <2>4. RefusedIsDead'
    BY <1>1, <1>4, <2>1 DEF TypeOK, RefusedIsDead
  <2>5. Logins'
    BY <1>1, <1>2, <1>4, <2>1 DEF TypeOK, Logins, LoginPcs
  <2> QED
    BY <1>3, <2>2, <2>3, <2>4, <2>5, TypeParts
<1>5. CASE /\ \E pc \in {"refused", "failed"} : login' = [login EXCEPT ![b].pc = pc]
           /\ UNCHANGED <<issued, valid>>
           /\ UNCHANGED used \/ Fault
  <2>1. Tokens' /\ Asked' /\ RefusedIsDead'
    BY <1>1, <1>5 DEF TypeOK, RefusedIsDead, Tokens, Asked
  <2>2. Counted'
    BY <1>5, FaultCounts DEF TypeOK, Counted
  <2>3. Logins'
    BY <1>1, <1>2, <1>5 DEF TypeOK, Logins, LoginPcs
  <2> QED
    BY <1>3, <2>1, <2>2, <2>3, TypeParts
<1> QED
  BY <1>4, <1>5 DEF AnswerLogin

LEMMA LoggedInType ==
  ASSUME TypeOK, RefusedIsDead, NEW b \in Tabs, LoggedIn(b)
  PROVE  TypeOK' /\ RefusedIsDead'
<1>1. /\ token' = login[b].token /\ login[b].token \in 0..issued
      /\ Enter(b, "polling", login[b].token, requests)
      /\ StopLogin(b) /\ UNCHANGED <<issued, valid, used>>
  BY DEF TypeOK, LoggedIn, server
<1>2. Tokens' /\ Counted'
  BY <1>1 DEF TypeOK, Tokens, Counted
<1>3. /\ Shown' /\ Asked' /\ RefusedIsDead'
      /\ \A c \in Tabs \ {b} : at'[c] = at[c]
  BY <1>1, EnterType DEF Pages, server
<1>4. Logins'
  BY <1>1, <1>3 DEF TypeOK, StopLogin, NoLogin, Logins, LoginPcs
<1> QED
  BY <1>2, <1>3, <1>4, TypeParts

LEMMA LoginFailedType ==
  ASSUME TypeOK, RefusedIsDead, NEW b \in Tabs, LoginFailed(b)
  PROVE  TypeOK' /\ RefusedIsDead'
<1>1. Tokens' /\ Counted' /\ Shown' /\ Asked' /\ RefusedIsDead'
  BY DEF TypeOK, RefusedIsDead, LoginFailed, server, Tokens, Counted, Shown, Asked
<1>2. Logins'
  BY DEF TypeOK, LoginFailed, StopLogin, NoLogin, server, Logins, LoginPcs
<1> QED
  BY <1>1, <1>2, TypeParts

-----------------------------------------------------------------------------

LEMMA StepType ==
  TypeOK /\ RefusedIsDead /\ [Next]_vars => TypeOK' /\ RefusedIsDead'
<1> SUFFICES ASSUME TypeOK, RefusedIsDead, [Next]_vars PROVE TypeOK' /\ RefusedIsDead'
  OBVIOUS
<1>1. ASSUME NEW b \in Tabs,
             \/ \E page \in Pages \cup {"login"} : Open(b, page)
             \/ \E page \in Pages : Navigate(b, page)
             \/ Poll(b) \/ Logout(b)
      PROVE  TypeOK' /\ RefusedIsDead'
  BY <1>1, OpenType, NavigateType, LogoutType
<1>2. ASSUME NEW b \in Tabs, SubmitLogin(b) \/ AnswerLogin(b) \/ HearLogin(b)
      PROVE  TypeOK' /\ RefusedIsDead'
  BY <1>2, SubmitType, AnswerLoginType, LoggedInType, LoginFailedType, InterceptorType
  DEF HearLogin, LoginRefused
<1>3. ASSUME NEW r \in requests, Answer(r) \/ Refused(r)
      PROVE  TypeOK' /\ RefusedIsDead'
  <2>1. r.tab \in Tabs
    BY DEF TypeOK
  <2> QED
    BY <1>3, <2>1, AnswerType, InterceptorType DEF Refused
<1>4. ASSUME NEW t \in valid, Expire(t)
      PROVE  TypeOK' /\ RefusedIsDead'
  BY <1>4, ExpireType
<1>5. CASE UNCHANGED vars
  BY <1>5 DEF vars, TypeOK, RefusedIsDead
<1> QED
  BY <1>1, <1>2, <1>3, <1>4, <1>5 DEF Next

(***************************************************************************)
(* Whatever tabs do and hear, in whatever order: what is stored and sent   *)
(* is a token that was issued or none, and a login is under way on login   *)
(* pages only.                                                             *)
(***************************************************************************)
THEOREM ConsoleTypeCorrect == Spec => []TypeOK
<1> QED
  BY InitType, StepType, PTL DEF Spec

(***************************************************************************)
(* A 401 to a request with a token is about a token that cannot come back, *)
(* however late it is heard: what is wrong with hearing it is only that    *)
(* another token may be stored by then.                                    *)
(***************************************************************************)
THEOREM RefusedStaysDead == Spec => []RefusedIsDead
<1> QED
  BY InitType, StepType, PTL DEF Spec

=============================================================================
