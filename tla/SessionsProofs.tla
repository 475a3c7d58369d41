--------------------------- MODULE SessionsProofs ---------------------------
(***************************************************************************)
(* Theorems of Sessions for any tokens, links, browsers, tabs and faults.  *)
(***************************************************************************)
EXTENDS Sessions, TLAPS

WithToken == {"asked", "reused", "rotating", "counting", "answered"}

\* The fields of an operation, by the point it has reached.
LEMMA OperationFields ==
    ASSUME NEW o \in Operation
    PROVE  /\ o = Idle <=> o.at = "idle"
           /\ o.at \in WithToken => o.token \in Tokens
           /\ o.at \in {"rotating", "counting"} => o.active \in BOOLEAN
           /\ o.at = "creating" => o.family \in Tokens \cup {None}
           /\ o.at \in {"claiming", "resetting"} => o.link \in Links
  BY DEF Operation, Idle, WithToken

\* Every operation the actions build is one.
LEMMA OperationBuilt ==
    /\ Idle \in Operation
    /\ \A p \in {"asked", "reused", "answered"}, t \in Tokens : [at |-> p, token |-> t] \in Operation
    /\ \A p \in {"rotating", "counting"}, t \in Tokens, a \in BOOLEAN :
        [at |-> p, token |-> t, active |-> a] \in Operation
    /\ \A f \in Tokens \cup {None} : [at |-> "creating", family |-> f] \in Operation
    /\ \A p \in {"barred", "refused", "leaving", "changing"} : [at |-> p] \in Operation
    /\ \A p \in {"claiming", "resetting"}, l \in Links : [at |-> p, link |-> l] \in Operation
  BY DEF Operation

\* A claimed link is the one that was read.
LEMMA ClaimMoves ==
    ASSUME NEW o \in Operation, o.at = "claiming"
    PROVE  [o EXCEPT !.at = "resetting"] = [at |-> "resetting", link |-> o.link]
<1>1. o \in [at : {"claiming", "resetting"}, link : Links]
  BY DEF Operation, Idle
<1> QED
  BY <1>1

(***************************************************************************)
(* Types, and what refers to tokens refers to those issued                 *)
(***************************************************************************)

IssuedInv ==
    /\ \A t \in Issued : token[t].family \in Issued
    /\ ended \subseteq Issued
    /\ \A b \in Browsers : stored[b] \in Issued \cup {None}
    /\ \A w \in Tabs : op[w].at \in WithToken => op[w].token \in Issued
    /\ \A w \in Tabs : op[w].at = "creating" => op[w].family \in Issued \cup {None}

LEMMA SessionsInit == Init => TypeOK /\ IssuedInv
<1> SUFFICES ASSUME Init PROVE TypeOK /\ IssuedInv
  OBVIOUS
<1>1. TypeOK
  BY OperationBuilt DEF Init, TypeOK, TokenState, LinkState
<1>2. IssuedInv
  BY DEF Init, IssuedInv, Issued, Idle, WithToken
<1> QED
  BY <1>1, <1>2

\* A step of tab w leaves the operations of the others.
LEMMA Continues ==
    ASSUME TypeOK, NEW w \in Tabs, NEW o \in Operation, Continue(w, o)
    PROVE  /\ op' \in [Tabs -> Operation]
           /\ op'[w] = o
           /\ \A v \in Tabs \ {w} : op'[v] = op[v]
  BY DEF TypeOK, Continue

\* Revocation takes the live ones among some tokens, and nothing else.
LEMMA Revocation ==
    ASSUME TypeOK, NEW S, token' = Revoked(S)
    PROVE  /\ token' \in [Tokens -> [state : TokenState, family : Tokens \cup {None}]]
           /\ \A t \in Tokens :
                /\ token'[t].family = token[t].family
                /\ token'[t].state =
                    IF t \in S /\ token[t].state = "live" THEN "revoked" ELSE token[t].state
           /\ Issued' = Issued
<1>1. \A t \in Tokens : token[t] \in [state : TokenState, family : Tokens \cup {None}]
  BY DEF TypeOK
<1>2. \A t \in Tokens :
        /\ token'[t] \in [state : TokenState, family : Tokens \cup {None}]
        /\ token'[t].family = token[t].family
        /\ token'[t].state =
            IF t \in S /\ token[t].state = "live" THEN "revoked" ELSE token[t].state
  BY <1>1 DEF Revoked, Live, TokenState
<1>3. token' \in [Tokens -> [state : TokenState, family : Tokens \cup {None}]]
  BY <1>2 DEF Revoked
<1>4. Issued' = Issued
  BY <1>2 DEF Issued
<1> QED
  BY <1>2, <1>3, <1>4

\* A new token is the only one that changes.
LEMMA Generation ==
    ASSUME TypeOK, NEW t \in Tokens \ Issued, NEW f \in Tokens,
           token' = [token EXCEPT ![t] = [state |-> "live", family |-> f]]
    PROVE  /\ token' \in [Tokens -> [state : TokenState, family : Tokens \cup {None}]]
           /\ token'[t].state = "live" /\ token'[t].family = f
           /\ \A u \in Tokens \ {t} : token'[u] = token[u]
           /\ Issued' = Issued \cup {t}
<1>1. /\ token' \in [Tokens -> [state : TokenState, family : Tokens \cup {None}]]
      /\ token'[t].state = "live" /\ token'[t].family = f
      /\ \A u \in Tokens \ {t} : token'[u] = token[u]
  BY DEF TypeOK, TokenState
<1>2. Issued' = Issued \cup {t}
  BY <1>1 DEF Issued
<1> QED
  BY <1>1, <1>2

\* A token that is rotated, or whose grace ends, keeps its family.
LEMMA Rotation ==
    ASSUME TypeOK, NEW t \in Issued, NEW s \in {"recent", "spent"},
           token' = [token EXCEPT ![t].state = s]
    PROVE  /\ token' \in [Tokens -> [state : TokenState, family : Tokens \cup {None}]]
           /\ token'[t].state = s /\ token'[t].family = token[t].family
           /\ \A u \in Tokens \ {t} : token'[u] = token[u]
           /\ Issued' = Issued
<1>1. token[t] \in [state : TokenState, family : Tokens \cup {None}] /\ t \in Tokens
  BY DEF TypeOK, Issued
<1>2. /\ token' \in [Tokens -> [state : TokenState, family : Tokens \cup {None}]]
      /\ token'[t].state = s /\ token'[t].family = token[t].family
      /\ \A u \in Tokens \ {t} : token'[u] = token[u]
  BY <1>1 DEF TypeOK, TokenState
<1>3. Issued' = Issued
  BY <1>2 DEF Issued
<1> QED
  BY <1>2, <1>3

(***************************************************************************)
(* Every step keeps the types                                              *)
(***************************************************************************)

LEMMA SessionsRequests ==
    ASSUME TypeOK, IssuedInv, NEW w \in Tabs, Begin(w)
    PROVE  TypeOK' /\ IssuedInv'
<1> USE OperationBuilt DEF TypeOK, rows, history
<1>1. CASE login(w)
  <2>1. TypeOK'
    BY <1>1, Continues DEF login
  <2> QED
    BY <1>1, <2>1, Continues DEF login, IssuedInv, Issued, WithToken
<1>2. CASE refreshAccessToken(w)
  <2>1. stored[Browser(w)] \in Issued
    BY <1>2, SessionsAssumption DEF refreshAccessToken, IssuedInv, Browser
  <2>2. [at |-> "asked", token |-> stored[Browser(w)]] \in Operation
    BY <2>1 DEF Issued
  <2> QED
    BY <1>2, <2>1, <2>2, Continues DEF refreshAccessToken, IssuedInv, Issued, WithToken
<1>3. CASE logout(w) \/ changePassword(w)
  BY <1>3, Continues DEF logout, changePassword, Goto, IssuedInv, Issued, WithToken
<1>4. CASE forgotPassword(w)
  <2>1. TypeOK'
    BY <1>4 DEF forgotPassword, LinkState
  <2> QED
    BY <1>4, <2>1 DEF forgotPassword, IssuedInv, Issued
<1>5. ASSUME NEW l \in Links, resetPassword(w, l) PROVE TypeOK' /\ IssuedInv'
  BY <1>5, Continues DEF resetPassword, IssuedInv, Issued, WithToken
<1> QED
  BY <1>1, <1>2, <1>3, <1>4, <1>5 DEF Begin

\* A step that ends a request of tab w, or goes on with no token.
LEMMA NoTokenLeft ==
    ASSUME TypeOK, IssuedInv, NEW w \in Tabs, NEW o \in Operation, Continue(w, o),
           o.at \notin WithToken \cup {"creating"}, Issued' = Issued
    PROVE  /\ \A v \in Tabs : op'[v].at \in WithToken => op'[v].token \in Issued'
           /\ \A v \in Tabs : op'[v].at = "creating" => op'[v].family \in (Issued \cup {None})'
<1>1. op'[w] = o /\ \A v \in Tabs \ {w} : op'[v] = op[v]
  BY Continues
<1> QED
  BY <1>1 DEF IssuedInv

\* Ending all sessions of the user.
LEMMA RevokeAllTyped ==
    ASSUME TypeOK, IssuedInv, RevokeAll
    PROVE  /\ token' \in [Tokens -> [state : TokenState, family : Tokens \cup {None}]]
           /\ \A t \in Tokens : token'[t].family = token[t].family
           /\ Issued' = Issued
           /\ ended' \subseteq Issued /\ ended' \subseteq Tokens
           /\ left' \in BOOLEAN
  BY Revocation DEF RevokeAll, IssuedInv, Families, Issued

LEMMA SessionsAnswers ==
    ASSUME TypeOK, IssuedInv, NEW w \in Tabs, Proceed(w)
    PROVE  TypeOK' /\ IssuedInv'
<1> USE OperationBuilt DEF TypeOK, rows, history, At
<1>0. /\ op[w] \in Operation
      /\ op[w].at \in WithToken => op[w].token \in Issued /\ op[w].token \in Tokens
  BY DEF IssuedInv, Issued
<1>1. CASE generateTokens(w)
  <2>1. PICK t \in Tokens \ Issued :
            /\ token' = [token EXCEPT ![t] =
                  [state |-> "live", family |-> IF op[w].family = None THEN t ELSE op[w].family]]
            /\ Continue(w, [at |-> "answered", token |-> t])
    BY <1>1 DEF generateTokens
  <2> DEFINE f == IF op[w].family = None THEN t ELSE op[w].family
  <2>2. f \in Tokens /\ (f \in Issued \/ f = t)
    BY <1>0, <1>1, OperationFields DEF generateTokens, IssuedInv, Issued
  <2>3. /\ token' \in [Tokens -> [state : TokenState, family : Tokens \cup {None}]]
        /\ token'[t].family = f
        /\ \A u \in Tokens \ {t} : token'[u] = token[u]
        /\ Issued' = Issued \cup {t}
    <3> HIDE DEF f
    <3>1. token' = [token EXCEPT ![t] = [state |-> "live", family |-> f]]
      BY <2>1 DEF f
    <3> QED
      BY <2>2, <3>1, Generation
  <2> HIDE DEF f
  <2>4. [at |-> "answered", token |-> t] \in Operation
    OBVIOUS
  <2>5. /\ op' \in [Tabs -> Operation]
        /\ op'[w] = [at |-> "answered", token |-> t]
        /\ \A v \in Tabs \ {w} : op'[v] = op[v]
    BY <2>1, <2>4, Continues
  <2>6. TypeOK'
    BY <1>1, <2>3, <2>5 DEF generateTokens
  <2>7. \A u \in Issued' : token'[u].family \in Issued'
    BY <2>2, <2>3 DEF IssuedInv, Issued
  <2> QED
    BY <1>1, <2>3, <2>5, <2>6, <2>7 DEF generateTokens, IssuedInv, WithToken
<1>2. CASE setTokens(w)
  <2>1. op[w].token \in Issued /\ op[w].token \in Tokens
    BY <1>0, <1>2 DEF setTokens, WithToken
  <2>2. TypeOK'
    BY <1>2, <2>1, Continues DEF setTokens, Done
  <2>3. Continue(w, Idle) /\ Idle.at \notin WithToken \cup {"creating"} /\ Issued' = Issued
    BY <1>2 DEF setTokens, Done, Idle, WithToken, Issued
  <2>4. \A b \in Browsers : stored'[b] \in Issued' \cup {None}
    BY <1>2, <2>1, <2>3 DEF setTokens, IssuedInv
  <2>5. /\ \A t \in Issued' : token'[t].family \in Issued'
        /\ ended' \subseteq Issued'
    BY <1>2, <2>3 DEF setTokens, IssuedInv
  <2> QED
    BY <2>2, <2>3, <2>4, <2>5, NoTokenLeft DEF IssuedInv
<1>3. CASE clearAuth(w)
  <2>1. TypeOK'
    BY <1>3, Continues DEF clearAuth, Done
  <2> QED
    BY <1>3, <2>1, Continues DEF clearAuth, Done, IssuedInv, Issued, WithToken, Idle
<1>4. CASE refresh(w)
  <2>1. op[w].token \in Issued /\ op[w].token \in Tokens
    BY <1>0, <1>4 DEF refresh, WithToken
  <2>2. PICK o \in Operation :
            /\ Continue(w, o)
            /\ o.at \in WithToken => o.token = op[w].token
            /\ o.at # "creating"
    BY <1>4, <2>1 DEF refresh, Goto, WithToken, Issued, TokenState
  <2>3. TypeOK'
    BY <1>4, <2>2, Continues DEF refresh
  <2> QED
    BY <1>4, <2>1, <2>2, <2>3, Continues DEF refresh, IssuedInv, Issued
<1>5. CASE revokeFamily(w)
  <2>1. op[w].token \in Issued
    BY <1>0, <1>5 DEF revokeFamily, WithToken
  <2> DEFINE f == token[op[w].token].family
  <2>2. f \in Issued
    BY <2>1 DEF IssuedInv
  <2>3. /\ token' = Revoked(Family(f))
        /\ ended' = ended \cup {f}
        /\ Goto(w, "refused")
    BY <1>5 DEF revokeFamily
  <2> HIDE DEF f
  <2>4. /\ token' \in [Tokens -> [state : TokenState, family : Tokens \cup {None}]]
        /\ \A t \in Tokens : token'[t].family = token[t].family
        /\ Issued' = Issued
    BY <2>3, Revocation
  <2>5. TypeOK'
    BY <1>5, <2>2, <2>3, <2>4, Continues DEF revokeFamily, Goto, Issued
  <2>6. Continue(w, [at |-> "refused"]) /\ [at |-> "refused"].at \notin WithToken \cup {"creating"}
    BY <2>3 DEF Goto, WithToken
  <2>7. /\ \A t \in Issued' : token'[t].family \in Issued'
        /\ ended' \subseteq Issued'
        /\ \A b \in Browsers : stored'[b] \in Issued' \cup {None}
    BY <1>5, <2>2, <2>3, <2>4 DEF revokeFamily, IssuedInv, Issued
  <2> QED
    BY <2>4, <2>5, <2>6, <2>7, NoTokenLeft DEF IssuedInv
<1>6. ASSUME NEW o \in Operation, Continue(w, o), op[w].at \in WithToken, o.at \notin WithToken,
             o.at = "creating" => o.family = token[op[w].token].family
      PROVE  /\ op' \in [Tabs -> Operation]
             /\ \A v \in Tabs : op'[v].at \in WithToken => op'[v].token \in Issued
             /\ \A v \in Tabs : op'[v].at = "creating" => op'[v].family \in Issued \cup {None}
  BY <1>0, <1>6, Continues DEF IssuedInv
<1>7. ASSUME op[w].at \in WithToken
      PROVE  [at |-> "creating", family |-> token[op[w].token].family] \in Operation
  BY <1>0, <1>7
<1>8. CASE CountFamily(w)
  <2>1. op[w].at \in WithToken
    BY <1>8 DEF CountFamily, WithToken
  <2>2. PICK o \in Operation :
            /\ Continue(w, o)
            /\ o.at \notin WithToken
            /\ o.at = "creating" => o.family = token[op[w].token].family
    BY <1>7, <1>8, <2>1 DEF CountFamily, Goto, Renew, WithToken
  <2>3. TypeOK'
    BY <1>6, <1>8, <2>1, <2>2 DEF CountFamily
  <2> QED
    BY <1>6, <1>8, <2>1, <2>2, <2>3 DEF CountFamily, IssuedInv, Issued
<1>9. CASE Rotate(w)
  <2>1. op[w].at \in WithToken /\ op[w].token \in Issued
    BY <1>0, <1>9 DEF Rotate, WithToken
  <2>2. PICK o \in Operation :
            /\ Continue(w, o)
            /\ o.at \notin WithToken
            /\ o.at = "creating" => o.family = token[op[w].token].family
    BY <1>7, <1>9, <2>1 DEF Rotate, Goto, Renew, WithToken
  <2>3. \/ token' = token
        \/ token' = [token EXCEPT ![op[w].token].state = "recent"]
    BY <1>9 DEF Rotate
  <2>4. /\ token' \in [Tokens -> [state : TokenState, family : Tokens \cup {None}]]
        /\ \A t \in Tokens : token'[t].family = token[t].family
        /\ Issued' = Issued
    BY <2>1, <2>3, Rotation DEF Issued
  <2>5. TypeOK'
    BY <1>6, <1>9, <2>1, <2>2, <2>4 DEF Rotate
  <2> QED
    BY <1>6, <1>9, <2>1, <2>2, <2>4, <2>5 DEF Rotate, IssuedInv, Issued
<1>10. CASE revokeAllForUser(w) \/ Leave(w)
  <2>1. TypeOK'
    BY <1>10, RevokeAllTyped, Continues DEF revokeAllForUser, Leave, Goto
  <2> QED
    BY <1>10, <2>1, RevokeAllTyped, Continues
    DEF revokeAllForUser, Leave, Goto, IssuedInv, Issued, WithToken
<1>11. CASE ChangePassword(w) \/ ResetPassword(w)
  <2>1. op' \in [Tabs -> Operation] /\ op'[w] = Idle /\ \A v \in Tabs \ {w} : op'[v] = op[v]
    BY <1>11, Continues DEF ChangePassword, ResetPassword, Done
  <2>2. resets' \in [Links -> Nat]
    BY <1>11 DEF ChangePassword, ResetPassword
  <2>3. TypeOK'
    BY <1>11, <2>1, <2>2, RevokeAllTyped DEF ChangePassword, ResetPassword
  <2>4. /\ Continue(w, Idle)
        /\ Idle.at \notin WithToken \cup {"creating"}
        /\ RevokeAll
        /\ stored' = stored
    BY <1>11 DEF ChangePassword, ResetPassword, Done, Idle, WithToken
  <2>5. /\ \A t \in Issued' : token'[t].family \in Issued'
        /\ ended' \subseteq Issued'
        /\ \A b \in Browsers : stored'[b] \in Issued' \cup {None}
    BY <2>4, RevokeAllTyped DEF IssuedInv, Issued
  <2> QED
    BY <2>3, <2>4, <2>5, RevokeAllTyped, NoTokenLeft DEF IssuedInv
<1>12. CASE Claim(w)
  <2>1. op[w].link \in Links
    BY <1>0, <1>12, OperationFields DEF Claim
  <2>2. PICK o \in Operation : Continue(w, o) /\ o.at \in {"resetting", "idle"}
    <3>1. CASE link[op[w].link] = "open"
      <4> DEFINE o == [at |-> "resetting", link |-> op[w].link]
      <4>1. op[w].at = "claiming" /\ Continue(w, [op[w] EXCEPT !.at = "resetting"])
        BY <1>12, <3>1 DEF Claim
      <4>2. [op[w] EXCEPT !.at = "resetting"] = o
        BY <1>0, <4>1, ClaimMoves
      <4>3. o \in Operation /\ o.at = "resetting" /\ Continue(w, o)
        BY <2>1, <4>1, <4>2
      <4> QED
        BY <4>3
    <3>2. CASE link[op[w].link] # "open"
      BY <1>12, <3>2 DEF Claim, Done, Idle
    <3> QED
      BY <3>1, <3>2
  <2>3. TypeOK'
    BY <1>12, <2>1, <2>2, Continues DEF Claim, LinkState
  <2> QED
    BY <1>12, <2>2, <2>3, Continues DEF Claim, IssuedInv, Issued, WithToken
<1> QED
  BY <1>1, <1>2, <1>3, <1>4, <1>5, <1>8, <1>9, <1>10, <1>11, <1>12 DEF Proceed

LEMMA SessionsOthers ==
    ASSUME TypeOK, IssuedInv, deactivate \/ activate \/ Fault
    PROVE  TypeOK' /\ IssuedInv'
<1> USE OperationBuilt DEF TypeOK, rows, history
<1>1. CASE deactivate \/ activate
  <2>1. TypeOK'
    BY <1>1, RevokeAllTyped DEF deactivate, activate
  <2> QED
    BY <1>1, <2>1, RevokeAllTyped DEF deactivate, activate, IssuedInv, Issued
<1>2. ASSUME NEW t \in Tokens, Elapse(t) PROVE TypeOK' /\ IssuedInv'
  <2>1. t \in Issued
    BY <1>2 DEF Elapse, Issued
  <2>2. /\ token' \in [Tokens -> [state : TokenState, family : Tokens \cup {None}]]
        /\ \A u \in Tokens : token'[u].family = token[u].family
        /\ Issued' = Issued
    BY <1>2, <2>1, Rotation DEF Elapse
  <2>3. TypeOK'
    BY <1>2, <2>2 DEF Elapse
  <2> QED
    BY <1>2, <2>2, <2>3 DEF Elapse, IssuedInv, Issued
<1>3. ASSUME NEW w \in Tabs, LoseAnswer(w) \/ Fail(w) PROVE TypeOK' /\ IssuedInv'
  <2>1. TypeOK'
    BY <1>3, Continues DEF LoseAnswer, Fail, Done
  <2> QED
    BY <1>3, <2>1, Continues DEF LoseAnswer, Fail, Done, Idle, IssuedInv, Issued, WithToken
<1> QED
  BY <1>1, <1>2, <1>3 DEF Fault

LEMMA SessionsNext == TypeOK /\ IssuedInv /\ [Next]_vars => TypeOK' /\ IssuedInv'
<1> SUFFICES ASSUME TypeOK, IssuedInv, [Next]_vars PROVE TypeOK' /\ IssuedInv'
  OBVIOUS
<1>1. CASE UNCHANGED vars
  BY <1>1 DEF vars, rows, history, TypeOK, IssuedInv, Issued
<1> QED
  BY <1>1, SessionsRequests, SessionsAnswers, SessionsOthers DEF Next

\* The variables of Sessions keep their types, in every interleaving and
\* with any faults.
THEOREM SessionsTypeCorrect == Spec => []TypeOK
  BY SessionsInit, SessionsNext, PTL DEF Spec

\* A renewal goes one of four ways.
LEMMA Refreshed ==
    ASSUME TypeOK, IssuedInv, NEW w \in Tabs, refresh(w)
    PROVE  \/ /\ token[op[w].token].state = "live"
              /\ Continue(w, [at |-> "rotating", token |-> op[w].token, active |-> active])
           \/ Continue(w, [at |-> "counting", token |-> op[w].token, active |-> active])
           \/ Continue(w, [at |-> "reused", token |-> op[w].token])
           \/ Continue(w, [at |-> "refused"])
<1>1. op[w].token \in Tokens /\ token[op[w].token].state # "unissued"
  BY DEF refresh, At, IssuedInv, Issued, WithToken
<1>2. token[op[w].token].state \in {"live", "recent", "spent", "revoked"}
  BY <1>1 DEF TypeOK, TokenState
<1> QED
  BY <1>2 DEF refresh, Goto

(***************************************************************************)
(* A link sets one password at most                                        *)
(***************************************************************************)

\* Whoever is setting a password with l has claimed it, alone.
LinkInv ==
    /\ \A l \in Links : resets[l] \in {0, 1}
    /\ \A l \in Links : resets[l] = 1 => link[l] = "used"
    /\ \A w \in Tabs : op[w].at = "resetting" =>
          link[op[w].link] = "used" /\ resets[op[w].link] = 0
    /\ \A v, w \in Tabs :
          (op[v].at = "resetting" /\ op[w].at = "resetting" /\ op[v].link = op[w].link) => v = w

LEMMA LinkInit == Init => LinkInv
  BY DEF Init, LinkInv, Idle

\* Most steps leave the links, and no request claims one.
LEMMA LinkUntouched ==
    ASSUME TypeOK, LinkInv, NEW w \in Tabs, NEW o, Continue(w, o), o.at # "resetting",
           UNCHANGED <<link, resets>>
    PROVE  LinkInv'
<1>1. op'[w] = o /\ \A v \in Tabs \ {w} : op'[v] = op[v]
  BY DEF TypeOK, Continue
<1> QED
  BY <1>1 DEF LinkInv

LEMMA LinkProceeds ==
    ASSUME TypeOK, IssuedInv, LinkInv, NEW w \in Tabs, Proceed(w)
    PROVE  LinkInv'
<1> USE DEF rows, history, At, Goto, Done
<1>1. CASE Claim(w)
  <2> DEFINE l == op[w].link
  <2>1. op[w] \in Operation /\ l \in Links
    BY <1>1, OperationFields DEF Claim, TypeOK
  <2>2. CASE link[l] = "open"
    <3>1. /\ link' = [link EXCEPT ![l] = "used"] /\ resets' = resets
          /\ Continue(w, [at |-> "resetting", link |-> l])
      BY <1>1, <2>1, <2>2, ClaimMoves DEF Claim
    <3>2. /\ op'[w] = [at |-> "resetting", link |-> l]
          /\ \A v \in Tabs \ {w} : op'[v] = op[v]
      BY <3>1 DEF Continue, TypeOK
    <3>3. link'[l] = "used" /\ \A k \in Links \ {l} : link'[k] = link[k]
      BY <2>1, <3>1 DEF TypeOK
    <3>4. resets[l] = 0 /\ \A v \in Tabs : op[v].at = "resetting" => op[v].link # l
      BY <2>1, <2>2 DEF LinkInv
    <3>5. \A v \in Tabs : op[v].at = "resetting" => op[v].link \in Links
      BY OperationFields DEF TypeOK
    <3> HIDE DEF l
    <3>6. \A v \in Tabs : op'[v].at = "resetting" =>
            link'[op'[v].link] = "used" /\ resets'[op'[v].link] = 0
      BY <3>1, <3>2, <3>3, <3>4, <3>5 DEF LinkInv
    <3>7. \A v, u \in Tabs :
            (op'[v].at = "resetting" /\ op'[u].at = "resetting" /\ op'[v].link = op'[u].link) => v = u
      BY <3>2, <3>4 DEF LinkInv
    <3>8. \A k \in Links : resets'[k] \in {0, 1} /\ (resets'[k] = 1 => link'[k] = "used")
      BY <3>1, <3>3 DEF LinkInv
    <3> QED
      BY <3>6, <3>7, <3>8 DEF LinkInv
  <2>3. CASE link[l] # "open"
    BY <1>1, <2>3, LinkUntouched DEF Claim, Idle
  <2> QED
    BY <2>2, <2>3
<1>2. CASE ResetPassword(w)
  <2> DEFINE l == op[w].link
  <2>1. l \in Links /\ op[w].at = "resetting"
    BY <1>2, OperationFields DEF ResetPassword, TypeOK
  <2>2. /\ op'[w] = Idle /\ \A v \in Tabs \ {w} : op'[v] = op[v]
        /\ resets' = [resets EXCEPT ![l] = @ + 1] /\ link' = link
    BY <1>2 DEF ResetPassword, Continue, TypeOK
  <2>3. resets[l] = 0 /\ link[l] = "used"
    BY <2>1 DEF LinkInv
  <2>4. \A v \in Tabs \ {w} : op[v].at = "resetting" => op[v].link # l /\ op[v].link \in Links
    BY <2>1, OperationFields DEF LinkInv, TypeOK
  <2>5. resets'[l] = 1 /\ \A k \in Links \ {l} : resets'[k] = resets[k]
    BY <2>1, <2>2, <2>3 DEF TypeOK
  <2> HIDE DEF l
  <2>6. \A v \in Tabs : op'[v].at = "resetting" =>
          link'[op'[v].link] = "used" /\ resets'[op'[v].link] = 0
    BY <2>2, <2>4, <2>5 DEF LinkInv, Idle
  <2>7. \A v, u \in Tabs :
          (op'[v].at = "resetting" /\ op'[u].at = "resetting" /\ op'[v].link = op'[u].link) => v = u
    BY <2>2 DEF LinkInv, Idle
  <2>8. \A k \in Links : resets'[k] \in {0, 1} /\ (resets'[k] = 1 => link'[k] = "used")
    BY <2>2, <2>3, <2>5 DEF LinkInv
  <2> QED
    BY <2>6, <2>7, <2>8 DEF LinkInv
<1>3. CASE ~Claim(w) /\ ~ResetPassword(w)
  <2>1. UNCHANGED <<link, resets>>
    BY <1>3 DEF Proceed, generateTokens, setTokens, clearAuth, refresh, revokeFamily, CountFamily,
                Rotate, revokeAllForUser, Leave, ChangePassword
  <2>2. PICK o : Continue(w, o) /\ o.at # "resetting"
    <3>1. CASE setTokens(w) \/ clearAuth(w)
      BY <3>1 DEF setTokens, clearAuth, Idle
    <3>2. CASE generateTokens(w)
      <4>1. PICK t : Continue(w, [at |-> "answered", token |-> t])
        BY <3>2 DEF generateTokens
      <4> QED
        BY <4>1
    <3>3. CASE refresh(w)
      <4>1. CASE Continue(w, [at |-> "rotating", token |-> op[w].token, active |-> active])
        BY <4>1
      <4>2. CASE Continue(w, [at |-> "counting", token |-> op[w].token, active |-> active])
        BY <4>2
      <4>3. CASE Continue(w, [at |-> "reused", token |-> op[w].token])
        BY <4>3
      <4>4. CASE Continue(w, [at |-> "refused"])
        BY <4>4
      <4> QED
        BY <3>3, <4>1, <4>2, <4>3, <4>4, Refreshed
    <3>4. CASE CountFamily(w) \/ Rotate(w)
      BY <3>4 DEF CountFamily, Rotate, Renew
    <3>5. CASE revokeFamily(w) \/ revokeAllForUser(w) \/ Leave(w) \/ ChangePassword(w)
      BY <3>5 DEF revokeFamily, revokeAllForUser, Leave, ChangePassword, Idle
    <3> QED
      BY <1>3, <3>1, <3>2, <3>3, <3>4, <3>5 DEF Proceed
  <2> QED
    BY <2>1, <2>2, LinkUntouched
<1> QED
  BY <1>1, <1>2, <1>3

LEMMA LinkNext == TypeOK /\ IssuedInv /\ LinkInv /\ [Next]_vars => LinkInv'
<1> SUFFICES ASSUME TypeOK, IssuedInv, LinkInv, [Next]_vars PROVE LinkInv'
  OBVIOUS
<1> USE DEF rows, history
<1>1. CASE UNCHANGED vars
  BY <1>1 DEF vars, LinkInv
<1>2. ASSUME NEW w \in Tabs, Begin(w) PROVE LinkInv'
  <2>1. CASE forgotPassword(w)
    <3>1. resets' = resets /\ op' = op
      BY <2>1 DEF forgotPassword
    <3>2. \A l \in Links : link[l] = "used" => link'[l] = "used"
      BY <2>1 DEF forgotPassword
    <3>3. \A v \in Tabs : op[v].at = "resetting" => op[v].link \in Links
      BY OperationFields DEF TypeOK
    <3> QED
      BY <3>1, <3>2, <3>3 DEF LinkInv
  <2>2. CASE ~forgotPassword(w)
    <3>1. PICK o : Continue(w, o) /\ o.at # "resetting" /\ UNCHANGED <<link, resets>>
      BY <1>2, <2>2 DEF Begin, login, refreshAccessToken, logout, changePassword, resetPassword, Goto
    <3> QED
      BY <3>1, LinkUntouched
  <2> QED
    BY <2>1, <2>2
<1>3. CASE deactivate \/ activate \/ \E t \in Tokens : Elapse(t)
  BY <1>3 DEF deactivate, activate, Elapse, LinkInv
<1>4. ASSUME NEW w \in Tabs, LoseAnswer(w) \/ Fail(w) PROVE LinkInv'
  BY <1>4, LinkUntouched DEF LoseAnswer, Fail, Done, Idle
<1> QED
  BY <1>1, <1>2, <1>3, <1>4, LinkProceeds DEF Next, Fault

\* A link to reset the password sets one at most, whatever requests use it at
\* once, fail or are sent again, and however many links follow it.
THEOREM LinkOnce == Spec => []LinkResetsOnce
<1>1. Init => TypeOK /\ IssuedInv /\ LinkInv
  BY SessionsInit, LinkInit
<1>2. TypeOK /\ IssuedInv /\ LinkInv /\ [Next]_vars => TypeOK' /\ IssuedInv' /\ LinkInv'
  BY SessionsNext, LinkNext
<1>3. LinkInv => LinkResetsOnce
  BY DEF LinkInv, LinkResetsOnce
<1> QED
  BY <1>1, <1>2, <1>3, PTL DEF Spec

(***************************************************************************)
(* One request at a time: no session that was ended comes back             *)
(***************************************************************************)

\* The API is in the middle of one request at most; no valid token, and none
\* that is to be created, is of a family that was ended.
SerialInv ==
    /\ \A v, w \in Tabs : (op[v].at \in Handling /\ op[w].at \in Handling) => v = w
    /\ \A t \in Live : token[t].family \notin ended
    /\ \A w \in Tabs : op[w].at = "rotating" => op[w].token \in Live
    /\ \A w \in Tabs : op[w].at = "creating" => op[w].family \notin ended

Alone(w) == \A v \in Tabs \ {w} : op[v].at \notin Handling

LEMMA SerialInit == Init => SerialInv
  BY DEF Init, SerialInv, Live, Idle, Handling

\* A step of the one request that the API is in the middle of.
LEMMA SerialAlone ==
    ASSUME TypeOK, SerialInv, NEW w \in Tabs, NEW o, Continue(w, o), Alone(w),
           \A t \in Live' : token'[t].family \notin ended',
           o.at = "rotating" => o.token \in Live',
           o.at = "creating" => o.family \notin ended'
    PROVE  SerialInv'
<1>1. op'[w] = o /\ \A v \in Tabs \ {w} : op'[v] = op[v]
  BY DEF TypeOK, Continue
<1>2. \A v \in Tabs \ {w} : op'[v].at \notin Handling
  BY <1>1 DEF Alone
<1> QED
  BY <1>1, <1>2 DEF SerialInv, Handling

\* A step of a tab alone.
LEMMA SerialTab ==
    ASSUME TypeOK, SerialInv, NEW w \in Tabs, NEW o, Continue(w, o), o.at \notin Handling,
           UNCHANGED <<token, ended>>
    PROVE  SerialInv'
<1>1. op'[w] = o /\ \A v \in Tabs \ {w} : op'[v] = op[v]
  BY DEF TypeOK, Continue
<1> QED
  BY <1>1 DEF SerialInv, Live, Handling

\* With all sessions ended, no token is valid.
LEMMA NoneLive ==
    ASSUME TypeOK, RevokeAll
    PROVE  Live' = {}
  BY Revocation DEF RevokeAll, Live

LEMMA SerialProceeds ==
    ASSUME TypeOK, IssuedInv, SerialInv, NEW w \in Tabs, Proceed(w), "overlap" \notin weather
    PROVE  SerialInv'
<1> USE DEF rows, history, At, Goto, Done
<1>0. op[w].at \in Handling \/ Turn => Alone(w)
  BY DEF SerialInv, Alone, Turn
<1>1. CASE setTokens(w) \/ clearAuth(w)
  BY <1>1, SerialTab DEF setTokens, clearAuth, Idle, Handling
<1>2. CASE generateTokens(w)
  <2>1. PICK t \in Tokens \ Issued :
            /\ token' = [token EXCEPT ![t] =
                  [state |-> "live", family |-> IF op[w].family = None THEN t ELSE op[w].family]]
            /\ Continue(w, [at |-> "answered", token |-> t])
    BY <1>2 DEF generateTokens
  <2> DEFINE f == IF op[w].family = None THEN t ELSE op[w].family
  <2>2. op[w].at = "creating" /\ op[w].family \in Tokens \cup {None} /\ ended' = ended
    BY <1>2, OperationFields DEF generateTokens, TypeOK
  <2>3. f \in Tokens /\ f \notin ended
    BY <2>2 DEF SerialInv, IssuedInv
  <2> HIDE DEF f
  <2>4. token' = [token EXCEPT ![t] = [state |-> "live", family |-> f]]
    BY <2>1 DEF f
  <2>5. token'[t].family = f /\ \A u \in Tokens \ {t} : token'[u] = token[u]
    BY <2>3, <2>4, Generation
  <2>6. \A u \in Live' : token'[u].family \notin ended'
    BY <2>2, <2>3, <2>5 DEF SerialInv, Live
  <2> QED
    BY <1>0, <2>1, <2>2, <2>6, SerialAlone DEF Handling
<1>3. CASE refresh(w)
  <2>1. op[w].token \in Tokens
    BY <1>3 DEF refresh, IssuedInv, Issued, WithToken
  <2>3. Live' = Live /\ ended' = ended /\ token' = token
    BY <1>3 DEF refresh, Live
  <2>4. PICK o : /\ Continue(w, o)
                 /\ o.at = "rotating" => o.token \in Live
                 /\ o.at # "creating"
    <3>1. CASE /\ token[op[w].token].state = "live"
               /\ Continue(w, [at |-> "rotating", token |-> op[w].token, active |-> active])
      BY <2>1, <3>1 DEF Live
    <3>2. CASE Continue(w, [at |-> "counting", token |-> op[w].token, active |-> active])
      BY <3>2
    <3>3. CASE Continue(w, [at |-> "reused", token |-> op[w].token])
      BY <3>3
    <3>4. CASE Continue(w, [at |-> "refused"])
      BY <3>4
    <3> QED
      BY <1>3, <3>1, <3>2, <3>3, <3>4, Refreshed
  <2>5. \A t \in Live' : token'[t].family \notin ended'
    BY <2>3 DEF SerialInv
  <2>6. Alone(w)
    BY <1>0, <1>3 DEF refresh
  <2> QED
    BY <2>3, <2>4, <2>5, <2>6, SerialAlone
<1>4. CASE revokeFamily(w)
  <2>1. op[w].at = "reused" /\ op[w].token \in Issued
    BY <1>4 DEF revokeFamily, IssuedInv, WithToken
  <2> DEFINE f == token[op[w].token].family
  <2>2. token' = Revoked(Family(f)) /\ ended' = ended \cup {f} /\ Continue(w, [at |-> "refused"])
    BY <1>4 DEF revokeFamily
  <2> HIDE DEF f
  <2>3. \A t \in Tokens :
            /\ token'[t].family = token[t].family
            /\ token'[t].state =
                IF t \in Family(f) /\ token[t].state = "live" THEN "revoked" ELSE token[t].state
    BY <2>2, Revocation
  <2>4. \A t \in Live' : t \in Live /\ token[t].family # f
    BY <2>3 DEF Live, Family, Issued
  <2>5. \A t \in Live' : token'[t].family \notin ended'
    BY <2>2, <2>3, <2>4 DEF SerialInv, Live
  <2>6. Alone(w)
    BY <1>0, <2>1 DEF Handling
  <2> QED
    BY <2>2, <2>5, <2>6, SerialAlone
<1>5. CASE CountFamily(w)
  <2> DEFINE f == token[op[w].token].family
  <2>1. Live' = Live /\ ended' = ended /\ token' = token
    BY <1>5 DEF CountFamily, Live
  <2>2. FamilyAlive(op[w].token) => f \notin ended
    BY DEF FamilyAlive, Family, SerialInv
  <2>3. PICK o : /\ Continue(w, o)
                 /\ o.at # "rotating"
                 /\ o.at = "creating" => o.family \notin ended
    <3>1. CASE FamilyAlive(op[w].token) /\ op[w].active
      <4>1. Continue(w, [at |-> "creating", family |-> f])
        BY <1>5, <3>1 DEF CountFamily, Renew
      <4> QED
        BY <2>2, <3>1, <4>1
    <3>2. CASE ~(FamilyAlive(op[w].token) /\ op[w].active)
      BY <1>5, <3>2 DEF CountFamily
    <3> QED
      BY <3>1, <3>2
  <2>4. \A t \in Live' : token'[t].family \notin ended'
    BY <2>1 DEF SerialInv
  <2>5. Alone(w)
    BY <1>0, <1>5 DEF CountFamily, Handling
  <2> QED
    BY <2>1, <2>3, <2>4, <2>5, SerialAlone
<1>6. CASE Rotate(w)
  <2> DEFINE t == op[w].token
             f == token[t].family
  <2>1. op[w].at = "rotating" /\ t \in Live /\ ended' = ended
    BY <1>6 DEF Rotate, SerialInv
  <2>2. t \in Issued /\ token[t].state = "live" /\ f \notin ended
    BY <2>1 DEF SerialInv, Live, Issued
  <2>3. Alone(w)
    BY <1>0, <2>1 DEF Handling
  <2>4. CASE ~op[w].active
    BY <1>6, <2>2, <2>3, <2>4, SerialAlone DEF Rotate, SerialInv, Live
  <2>5. CASE op[w].active
    <3>1. /\ token' = [token EXCEPT ![t].state = "recent"]
          /\ Continue(w, [at |-> "creating", family |-> f])
      BY <1>6, <2>2, <2>5 DEF Rotate, Renew
    <3> HIDE DEF t, f
    <3>2. token'[t].state = "recent" /\ \A u \in Tokens \ {t} : token'[u] = token[u]
      BY <2>2, <3>1, Rotation
    <3>3. \A u \in Live' : token'[u].family \notin ended'
      BY <2>1, <3>2 DEF SerialInv, Live
    <3> QED
      BY <2>1, <2>2, <2>3, <3>1, <3>3, SerialAlone
  <2> QED
    BY <1>6, <2>4, <2>5 DEF Rotate
<1>7. CASE revokeAllForUser(w) \/ Leave(w) \/ ChangePassword(w) \/ ResetPassword(w)
  <2>1. RevokeAll /\ Alone(w)
    BY <1>0, <1>7 DEF revokeAllForUser, Leave, ChangePassword, ResetPassword, Handling
  <2>2. Continue(w, [at |-> "refused"]) \/ Continue(w, Idle)
    BY <1>7 DEF revokeAllForUser, Leave, ChangePassword, ResetPassword
  <2>3. Live' = {}
    BY <2>1, NoneLive
  <2> QED
    BY <2>1, <2>2, <2>3, SerialAlone DEF Idle
<1>8. CASE Claim(w)
  <2>1. UNCHANGED <<token, ended>> /\ Alone(w) /\ op[w] \in Operation /\ op[w].at = "claiming"
    BY <1>0, <1>8 DEF Claim, Handling, TypeOK
  <2>2. PICK o : Continue(w, o) /\ o.at \notin {"rotating", "creating"}
    <3>1. CASE link[op[w].link] = "open"
      <4>1. Continue(w, [at |-> "resetting", link |-> op[w].link])
        BY <1>8, <2>1, <3>1, ClaimMoves DEF Claim
      <4> QED
        BY <4>1
    <3>2. CASE link[op[w].link] # "open"
      BY <1>8, <3>2 DEF Claim, Idle
    <3> QED
      BY <3>1, <3>2
  <2>3. \A t \in Live' : token'[t].family \notin ended'
    BY <2>1 DEF SerialInv, Live
  <2> QED
    BY <2>1, <2>2, <2>3, SerialAlone
<1> QED
  BY <1>1, <1>2, <1>3, <1>4, <1>5, <1>6, <1>7, <1>8 DEF Proceed

LEMMA SerialNext ==
    TypeOK /\ IssuedInv /\ SerialInv /\ "overlap" \notin weather /\ [Next]_vars => SerialInv'
<1> SUFFICES ASSUME TypeOK, IssuedInv, SerialInv, "overlap" \notin weather, [Next]_vars
             PROVE  SerialInv'
  OBVIOUS
<1> USE DEF rows, history, Goto, Done
<1>1. CASE UNCHANGED vars
  BY <1>1 DEF vars, SerialInv, Live
<1>2. ASSUME NEW w \in Tabs, Begin(w) PROVE SerialInv'
  <2>1. CASE refreshAccessToken(w) \/ logout(w)
    BY <2>1, SerialTab DEF refreshAccessToken, logout, Handling
  <2>2. CASE forgotPassword(w)
    BY <2>2 DEF forgotPassword, SerialInv, Live
  <2>3. CASE login(w) \/ changePassword(w) \/ \E l \in Links : resetPassword(w, l)
    <3>1. Turn /\ UNCHANGED <<token, ended>>
      BY <2>3 DEF login, changePassword, resetPassword
    <3>2. Alone(w)
      BY <3>1 DEF Turn, Alone
    <3>3. PICK o : /\ Continue(w, o)
                   /\ o.at # "rotating"
                   /\ o.at = "creating" => o.family = None
      <4>1. CASE login(w)
        BY <4>1 DEF login
      <4>2. CASE changePassword(w)
        BY <4>2 DEF changePassword
      <4>3. CASE \E l \in Links : resetPassword(w, l)
        <5>1. PICK l \in Links : Continue(w, [at |-> "claiming", link |-> l])
          BY <4>3 DEF resetPassword
        <5> QED
          BY <5>1
      <4> QED
        BY <2>3, <4>1, <4>2, <4>3
    <3>4. None \notin ended'
      BY <3>1, SessionsAssumption DEF TypeOK
    <3>5. \A t \in Live' : token'[t].family \notin ended'
      BY <3>1 DEF SerialInv, Live
    <3> QED
      BY <3>2, <3>3, <3>4, <3>5, SerialAlone
  <2> QED
    BY <1>2, <2>1, <2>2, <2>3 DEF Begin
<1>3. CASE deactivate
  <2>1. Live' = {} /\ op' = op /\ \A v \in Tabs : op[v].at \notin Handling
    BY <1>3, NoneLive DEF deactivate, Turn
  <2> QED
    BY <2>1 DEF SerialInv, Handling
<1>4. CASE activate
  BY <1>4 DEF activate, SerialInv, Live
<1>5. ASSUME NEW t \in Tokens, Elapse(t) PROVE SerialInv'
  <2>1. t \in Issued /\ token[t].state = "recent"
    BY <1>5 DEF Elapse, Issued
  <2>2. token'[t].state = "spent" /\ \A u \in Tokens \ {t} : token'[u] = token[u]
    BY <1>5, <2>1, Rotation DEF Elapse
  <2>3. Live' = Live /\ \A u \in Live : token'[u].family = token[u].family
    BY <2>1, <2>2 DEF Live
  <2> QED
    BY <1>5, <2>3 DEF Elapse, SerialInv
<1>6. ASSUME NEW w \in Tabs, LoseAnswer(w) \/ Fail(w) PROVE SerialInv'
  BY <1>6, SerialTab DEF LoseAnswer, Fail, Idle, Handling
<1> QED
  BY <1>1, <1>2, <1>3, <1>4, <1>5, <1>6, SerialProceeds DEF Next, Fault

LEMMA WeatherStays == [Next]_vars => weather' = weather
  BY DEF Next, vars, rows, Begin, login, refreshAccessToken, logout, changePassword, forgotPassword,
         resetPassword, Proceed, generateTokens, setTokens, clearAuth, refresh, revokeFamily,
         CountFamily, Rotate, revokeAllForUser, Leave, ChangePassword, Claim, ResetPassword,
         deactivate, activate, Fault, Elapse, LoseAnswer, Fail

\* While the API handles one request at a time, whatever else fails, a session
\* that was ended has no valid token again, by however many renewals.
THEOREM EndedForGood == Spec => []EndedStaysEnded
<1> DEFINE Inv == "overlap" \notin weather => SerialInv
<1>1. Init => TypeOK /\ IssuedInv /\ Inv
  BY SessionsInit, SerialInit
<1>2. TypeOK /\ IssuedInv /\ Inv /\ [Next]_vars => TypeOK' /\ IssuedInv' /\ Inv'
  BY SessionsNext, SerialNext, WeatherStays
<1>3. TypeOK /\ Inv => EndedStaysEnded
  BY DEF SerialInv, EndedStaysEnded, Without
<1> QED
  BY <1>1, <1>2, <1>3, PTL DEF Spec

(***************************************************************************)
(* Renewals within the grace keep the browser signed in                    *)
(***************************************************************************)

\* Request w is about to create a token of the family of t.
Replaces(w, t) == At(w, "creating") /\ op[w].family = token[t].family

\* Until the user ends a session nothing is refused, because every family has
\* a valid token or is about to have one.
Stays ==
    /\ active
    /\ \A t \in Tokens : token[t].state \in {"unissued", "live", "recent"}
    /\ \A w \in Tabs : op[w].at \notin {"reused", "barred", "refused"}
    /\ \A w \in Tabs : op[w].at \in {"rotating", "counting"} => op[w].active
    /\ \A t \in Issued : FamilyAlive(t) \/ \E w \in Tabs : Replaces(w, t)

StaysInv == Without({"overlap", "late", "failure"}) /\ ~left => Stays

LEMMA StaysInit == Init => StaysInv
  BY DEF Init, StaysInv, Stays, Issued, Idle

\* A step of a tab that leaves the tokens, and creates none.
LEMMA StaysTab ==
    ASSUME TypeOK, Stays, NEW w \in Tabs, NEW o, Continue(w, o), UNCHANGED <<token, active>>,
           op[w].at # "creating", o.at \notin {"reused", "barred", "refused"},
           o.at \in {"rotating", "counting"} => o.active
    PROVE  Stays'
<1>1. op'[w] = o /\ \A v \in Tabs \ {w} : op'[v] = op[v]
  BY DEF TypeOK, Continue
<1>2. \A t \in Issued' : FamilyAlive(t)' \/ \E v \in Tabs : Replaces(v, t)'
  <2> SUFFICES ASSUME NEW t \in Issued, ~FamilyAlive(t)
               PROVE  \E v \in Tabs : Replaces(v, t)'
    BY DEF Issued, FamilyAlive, Family, Live
  <2>1. PICK v \in Tabs : Replaces(v, t)
    BY DEF Stays
  <2>2. v # w
    BY <2>1 DEF Replaces, At
  <2> QED
    BY <1>1, <2>1, <2>2 DEF Replaces, At
<1> QED
  BY <1>1, <1>2 DEF Stays

\* Whoever signs the user out of everything says so for good.
LEMMA LeftForGood ==
    ASSUME TypeOK, NEW w \in Tabs, Proceed(w), ~left'
    PROVE  /\ ~left
           /\ \/ generateTokens(w) \/ setTokens(w) \/ clearAuth(w) \/ refresh(w)
              \/ revokeFamily(w) \/ CountFamily(w) \/ Rotate(w) \/ Claim(w)
<1> USE DEF history
<1>1. CASE setTokens(w) \/ clearAuth(w) \/ revokeFamily(w)
  BY <1>1 DEF setTokens, clearAuth, revokeFamily
<1>2. CASE generateTokens(w)
  BY <1>2 DEF generateTokens
<1>3. CASE refresh(w)
  BY <1>3 DEF refresh
<1>4. CASE CountFamily(w)
  BY <1>4 DEF CountFamily
<1>5. CASE Rotate(w)
  BY <1>5 DEF Rotate
<1>6. CASE Claim(w)
  BY <1>6 DEF Claim
<1>7. CASE revokeAllForUser(w) \/ Leave(w) \/ ChangePassword(w) \/ ResetPassword(w)
  BY <1>7 DEF revokeAllForUser, Leave, ChangePassword, ResetPassword, RevokeAll
<1> QED
  BY <1>1, <1>2, <1>3, <1>4, <1>5, <1>6, <1>7 DEF Proceed

LEMMA StaysProceeds ==
    ASSUME TypeOK, IssuedInv, SerialInv, Stays, NEW w \in Tabs, Proceed(w), ~left',
           "overlap" \notin weather
    PROVE  Stays'
<1> USE DEF rows, history, At, Goto, Done
<1>1. CASE setTokens(w) \/ clearAuth(w) \/ revokeFamily(w)
  BY <1>1, StaysTab DEF setTokens, clearAuth, revokeFamily, Idle, Stays
<1>2. CASE generateTokens(w)
  <2>1. PICK t \in Tokens \ Issued :
            /\ token' = [token EXCEPT ![t] =
                  [state |-> "live", family |-> IF op[w].family = None THEN t ELSE op[w].family]]
            /\ Continue(w, [at |-> "answered", token |-> t])
    BY <1>2 DEF generateTokens
  <2> DEFINE f == IF op[w].family = None THEN t ELSE op[w].family
  <2>2. op[w].at = "creating" /\ op[w].family \in Tokens \cup {None} /\ active' = active
    BY <1>2, OperationFields DEF generateTokens, TypeOK
  <2>3. f \in Tokens /\ (op[w].family # None => f = op[w].family)
    BY <2>2
  <2> HIDE DEF f
  <2>4. token' = [token EXCEPT ![t] = [state |-> "live", family |-> f]]
    BY <2>1 DEF f
  <2>5. /\ token'[t].state = "live" /\ token'[t].family = f
        /\ \A u \in Tokens \ {t} : token'[u] = token[u]
        /\ Issued' = Issued \cup {t}
    BY <2>3, <2>4, Generation
  <2>6. /\ op'[w] = [at |-> "answered", token |-> t]
        /\ \A v \in Tabs \ {w} : op'[v] = op[v]
    BY <2>1 DEF TypeOK, Continue
  <2>7. \A u \in Tokens : u # t => (u \in Live' <=> u \in Live)
    BY <2>5 DEF Live
  <2>8. t \in Live' /\ t \in Issued' /\ t \notin Issued
    BY <2>5 DEF Live
  <2>9. ASSUME NEW u \in Issued', token'[u].family = f
        PROVE  FamilyAlive(u)'
    BY <2>5, <2>8, <2>9 DEF FamilyAlive, Family
  <2>10. ASSUME NEW u \in Issued', token'[u].family # f
         PROVE  FamilyAlive(u)' \/ \E v \in Tabs : Replaces(v, u)'
    <3>1. u \in Issued /\ u # t /\ token'[u] = token[u] /\ token[u].family \in Issued
      BY <2>5, <2>10 DEF Issued, IssuedInv
    <3>2. CASE FamilyAlive(u)
      <4>1. PICK x \in Live : x \in Issued /\ token[x].family = token[u].family
        BY <3>2 DEF FamilyAlive, Family
      <4>2. x \in Live' /\ x \in Issued' /\ token'[x].family = token'[u].family
        BY <2>5, <2>8, <3>1, <4>1 DEF Live, Issued
      <4> QED
        BY <4>2 DEF FamilyAlive, Family
    <3>3. CASE ~FamilyAlive(u)
      <4>1. PICK v \in Tabs : Replaces(v, u)
        BY <3>1, <3>3 DEF Stays
      <4>2. v # w
        <5>1. op[v].family = token[u].family /\ token[u].family # f
          BY <2>10, <3>1, <4>1 DEF Replaces
        <5>2. token[u].family # None
          BY <3>1, SessionsAssumption DEF Issued
        <5> QED
          BY <2>3, <5>1, <5>2
      <4> QED
        BY <2>6, <3>1, <4>1, <4>2 DEF Replaces
    <3> QED
      BY <3>2, <3>3
  <2>11. \A u \in Tokens : token'[u].state \in {"unissued", "live", "recent"}
    BY <2>5 DEF Stays
  <2>12. /\ \A v \in Tabs : op'[v].at \notin {"reused", "barred", "refused"}
         /\ \A v \in Tabs : op'[v].at \in {"rotating", "counting"} => op'[v].active
    BY <2>6 DEF Stays
  <2> QED
    BY <2>2, <2>9, <2>10, <2>11, <2>12 DEF Stays
<1>3. CASE refresh(w)
  <2>1. op[w].token \in Tokens /\ op[w].at = "asked" /\ UNCHANGED <<token, active>>
    BY <1>3 DEF refresh, IssuedInv, Issued, WithToken
  <2>2. token[op[w].token].state \in {"live", "recent"}
    BY <1>3, <2>1 DEF Stays, IssuedInv, Issued, WithToken
  <2>3. PICK p \in {"rotating", "counting"} :
            Continue(w, [at |-> p, token |-> op[w].token, active |-> active])
    BY <1>3, <2>2 DEF refresh
  <2>4. active
    BY DEF Stays
  <2> QED
    BY <2>1, <2>3, <2>4, StaysTab
<1>4. CASE CountFamily(w)
  <2>1. op[w].at = "counting" /\ op[w].active /\ UNCHANGED <<token, active>>
    BY <1>4 DEF CountFamily, Stays
  <2>2. op[w].token \in Issued
    BY <2>1 DEF IssuedInv, WithToken
  <2>3. FamilyAlive(op[w].token)
    <3>1. \A v \in Tabs : op[v].at # "creating"
      BY <2>1 DEF SerialInv, Handling
    <3> QED
      BY <2>2, <3>1 DEF Stays, Replaces
  <2>4. Continue(w, [at |-> "creating", family |-> token[op[w].token].family])
    BY <1>4, <2>1, <2>3 DEF CountFamily, Renew
  <2> QED
    BY <2>1, <2>4, StaysTab
<1>5. CASE Rotate(w)
  <2> DEFINE t == op[w].token
             f == token[t].family
  <2>1. op[w].at = "rotating" /\ op[w].active /\ active' = active
    BY <1>5 DEF Rotate, Stays
  <2>2. t \in Issued /\ token[t].state = "live" /\ t \in Tokens
    BY <2>1 DEF SerialInv, Live, Issued
  <2>3. /\ token' = [token EXCEPT ![t].state = "recent"]
        /\ Continue(w, [at |-> "creating", family |-> f])
    BY <1>5, <2>1, <2>2 DEF Rotate, Renew
  <2> HIDE DEF t, f
  <2>4. /\ token'[t].state = "recent" /\ token'[t].family = f
        /\ \A u \in Tokens \ {t} : token'[u] = token[u]
        /\ Issued' = Issued
    BY <2>2, <2>3, Rotation DEF f
  <2>5. /\ op'[w] = [at |-> "creating", family |-> f]
        /\ \A v \in Tabs \ {w} : op'[v] = op[v]
    BY <2>3 DEF TypeOK, Continue
  <2>6. ASSUME NEW u \in Issued'
        PROVE  FamilyAlive(u)' \/ \E v \in Tabs : Replaces(v, u)'
    <3>1. u \in Issued /\ u \in Tokens /\ token'[u].family = token[u].family
      BY <2>4, <2>6 DEF Issued, f
    <3>2. CASE token'[u].family = f
      BY <2>5, <3>2 DEF Replaces
    <3>3. CASE token'[u].family # f
      <4>1. CASE FamilyAlive(u)
        <5>1. PICK x \in Live : x \in Issued /\ token[x].family = token[u].family
          BY <4>1 DEF FamilyAlive, Family
        <5>2. x # t
          BY <3>1, <3>3, <5>1 DEF f
        <5>3. x \in Live' /\ x \in Issued' /\ token'[x].family = token'[u].family
          BY <2>4, <3>1, <5>1, <5>2 DEF Live
        <5> QED
          BY <5>3 DEF FamilyAlive, Family
      <4>2. CASE ~FamilyAlive(u)
        <5>1. PICK v \in Tabs : Replaces(v, u)
          BY <3>1, <4>2 DEF Stays
        <5>2. v # w
          BY <2>1, <5>1 DEF Replaces
        <5> QED
          BY <2>5, <3>1, <5>1, <5>2 DEF Replaces
      <4> QED
        BY <4>1, <4>2
    <3> QED
      BY <3>2, <3>3
  <2>7. \A u \in Tokens : token'[u].state \in {"unissued", "live", "recent"}
    BY <2>4 DEF Stays
  <2>8. /\ \A v \in Tabs : op'[v].at \notin {"reused", "barred", "refused"}
        /\ \A v \in Tabs : op'[v].at \in {"rotating", "counting"} => op'[v].active
    BY <2>5 DEF Stays
  <2> QED
    BY <2>1, <2>6, <2>7, <2>8 DEF Stays
<1>6. CASE Claim(w)
  <2>1. UNCHANGED <<token, active>> /\ op[w] \in Operation /\ op[w].at = "claiming"
    BY <1>6 DEF Claim, TypeOK
  <2>2. PICK o : Continue(w, o) /\ o.at \in {"resetting", "idle"}
    <3>1. CASE link[op[w].link] = "open"
      <4>1. Continue(w, [at |-> "resetting", link |-> op[w].link])
        BY <1>6, <2>1, <3>1, ClaimMoves DEF Claim
      <4> QED
        BY <4>1
    <3>2. CASE link[op[w].link] # "open"
      BY <1>6, <3>2 DEF Claim, Idle
    <3> QED
      BY <3>1, <3>2
  <2> QED
    BY <2>1, <2>2, StaysTab
<1> QED
  BY <1>1, <1>2, <1>3, <1>4, <1>5, <1>6, LeftForGood

LEMMA StaysNext ==
    TypeOK /\ IssuedInv /\ ("overlap" \notin weather => SerialInv) /\ StaysInv /\ [Next]_vars
    => StaysInv'
<1> SUFFICES ASSUME TypeOK, IssuedInv, "overlap" \notin weather => SerialInv, StaysInv,
                    [Next]_vars, Without({"overlap", "late", "failure"})', ~left'
             PROVE  Stays'
  BY DEF StaysInv
<1> USE DEF rows, history, Goto, Done
<1>1. "overlap" \notin weather /\ "late" \notin weather /\ "failure" \notin weather /\ SerialInv
  BY WeatherStays DEF Without
<1>2. ASSUME ~left
      PROVE  Stays
  BY <1>1, <1>2 DEF StaysInv, Without
<1>3. CASE UNCHANGED vars
  BY <1>2, <1>3 DEF vars, Stays, Issued, FamilyAlive, Family, Live, Replaces, At
<1>4. ASSUME NEW w \in Tabs, Begin(w)
      PROVE  Stays'
  <2>1. ~left /\ UNCHANGED <<token, active>>
    <3>1. CASE forgotPassword(w)
      BY <3>1 DEF forgotPassword
    <3>2. CASE login(w) \/ refreshAccessToken(w) \/ logout(w) \/ changePassword(w)
      BY <3>2 DEF login, refreshAccessToken, logout, changePassword
    <3>3. CASE \E l \in Links : resetPassword(w, l)
      BY <3>3 DEF resetPassword
    <3> QED
      BY <1>4, <3>1, <3>2, <3>3 DEF Begin
  <2>2. Stays
    BY <1>2, <2>1
  <2>3. CASE forgotPassword(w)
    BY <2>1, <2>2, <2>3
    DEF forgotPassword, Stays, Issued, FamilyAlive, Family, Live, Replaces, At
  <2>4. CASE ~forgotPassword(w)
    <3>1. Free(w)
      <4>1. CASE login(w) \/ refreshAccessToken(w) \/ logout(w) \/ changePassword(w)
        BY <4>1 DEF login, refreshAccessToken, logout, changePassword
      <4>2. CASE \E l \in Links : resetPassword(w, l)
        BY <4>2 DEF resetPassword
      <4> QED
        BY <1>4, <2>4, <4>1, <4>2 DEF Begin
    <3>2. PICK o : /\ Continue(w, o)
                   /\ o.at \in {"creating", "asked", "leaving", "changing", "claiming"}
      <4>1. CASE login(w)
        BY <4>1 DEF login
      <4>2. CASE refreshAccessToken(w)
        BY <4>2 DEF refreshAccessToken
      <4>3. CASE logout(w) \/ changePassword(w)
        BY <4>3 DEF logout, changePassword
      <4>4. CASE \E l \in Links : resetPassword(w, l)
        BY <4>4 DEF resetPassword
      <4> QED
        BY <1>4, <2>4, <4>1, <4>2, <4>3, <4>4 DEF Begin
    <3>3. op[w].at = "idle"
      BY <3>1 DEF Free, Idle
    <3> QED
      BY <2>1, <2>2, <3>2, <3>3, StaysTab
  <2> QED
    BY <2>3, <2>4
<1>5. ASSUME NEW w \in Tabs, Proceed(w)
      PROVE  Stays'
  BY <1>1, <1>2, <1>5, LeftForGood, StaysProceeds
<1>6. CASE deactivate
  BY <1>6 DEF deactivate, RevokeAll
<1>7. CASE activate
  BY <1>2, <1>7 DEF activate, Stays
<1>8. ASSUME NEW t \in Tokens, Elapse(t)
      PROVE  Stays'
  BY <1>1, <1>8 DEF Elapse
<1>9. ASSUME NEW w \in Tabs, LoseAnswer(w) \/ Fail(w)
      PROVE  Stays'
  <2>1. LoseAnswer(w)
    BY <1>1, <1>9 DEF Fail
  <2> QED
    BY <1>2, <2>1, StaysTab DEF LoseAnswer, Idle
<1> QED
  BY <1>3, <1>4, <1>5, <1>6, <1>7, <1>8, <1>9 DEF Next, Fault

\* Only a refusal makes a browser forget its token.
LEMMA ForgottenIsRefused ==
    ASSUME TypeOK, IssuedInv, Stays, [Next]_vars, NEW b \in Browsers, stored[b] # None
    PROVE  stored'[b] # None
<1> USE DEF rows, history
<1>1. ASSUME NEW w \in Tabs, Proceed(w)
      PROVE  stored'[b] # None
  <2>1. ~clearAuth(w)
    BY DEF clearAuth, At, Stays
  <2>2. CASE setTokens(w)
    <3>1. op[w].token \in Tokens
      BY <2>2 DEF setTokens, At, IssuedInv, Issued, WithToken
    <3> QED
      BY <2>2, <3>1, SessionsAssumption DEF setTokens, TypeOK
  <2>3. CASE ~setTokens(w)
    <3>1. stored' = stored
      BY <1>1, <2>1, <2>3 DEF Proceed, generateTokens, refresh, revokeFamily, CountFamily, Rotate,
        revokeAllForUser, Leave, ChangePassword, Claim, ResetPassword
    <3> QED
      BY <3>1
  <2> QED
    BY <2>2, <2>3
<1>2. ASSUME NEW w \in Tabs, Begin(w) \/ LoseAnswer(w) \/ Fail(w)
      PROVE  stored' = stored
  BY <1>2 DEF Begin, login, refreshAccessToken, logout, changePassword, forgotPassword,
    resetPassword, LoseAnswer, Fail
<1>3. CASE deactivate \/ activate \/ \E t \in Tokens : Elapse(t)
  BY <1>3 DEF deactivate, activate, Elapse
<1>4. CASE UNCHANGED vars
  BY <1>4 DEF vars
<1> QED
  BY <1>1, <1>2, <1>3, <1>4 DEF Next, Fault

\* Until the user ends a session, if the API handles one request at a time and
\* the tabs ask again within the grace, no renewal is refused, however many tabs
\* renew together and whatever answers are lost: no step signs a browser out.
THEOREM SignedInStays == Spec => StaysSignedIn
<1> DEFINE Inv == "overlap" \notin weather => SerialInv
           Asked == Without({"overlap", "late", "failure"}) /\ ~left
                    => \A b \in Browsers : stored[b] # None => stored'[b] # None
<1>1. Init => TypeOK /\ IssuedInv /\ Inv /\ StaysInv
  BY SessionsInit, SerialInit, StaysInit
<1>2. TypeOK /\ IssuedInv /\ Inv /\ StaysInv /\ [Next]_vars
      => TypeOK' /\ IssuedInv' /\ Inv' /\ StaysInv'
  BY SessionsNext, SerialNext, WeatherStays, StaysNext
<1>3. TypeOK /\ IssuedInv /\ StaysInv /\ [Next]_vars => [Asked]_vars
  BY ForgottenIsRefused DEF StaysInv
<1> QED
  BY <1>1, <1>2, <1>3, PTL DEF Spec, StaysSignedIn

(***************************************************************************)
(* What a browser has stored is of use, or about to be replaced            *)
(***************************************************************************)

\* Token t is in browser b: stored there, or with a request of a tab of it.
Refers(b, t) ==
    \/ stored[b] = t
    \/ \E w \in Tabs : Browser(w) = b /\ op[w].at \in WithToken /\ op[w].token = t

OfUse(t) == t \in Live \/ token[t].family \in ended

\* No two browsers hold the same token; one just received is held by nobody
\* else yet; and a stored one is of no use only while its successor is under way.
Stored ==
    /\ \A a, b \in Browsers, t \in Tokens : Refers(a, t) /\ Refers(b, t) => a = b
    /\ \A w \in Tabs : op[w].at = "answered" =>
        /\ OfUse(op[w].token)
        /\ \A b \in Browsers : stored[b] # op[w].token
        /\ \A v \in Tabs \ {w} : op[v].at \in WithToken => op[v].token # op[w].token
    /\ \A b \in Browsers :
        \/ stored[b] = None
        \/ OfUse(stored[b])
        \/ \E w \in Tabs : Browser(w) = b /\ op[w].at \in {"creating", "answered"}

StoredInv == Without({"overlap", "late", "lost", "failure"}) => Stored

LEMMA StoredInit == Init => StoredInv
<1> SUFFICES ASSUME Init PROVE Stored
  BY DEF StoredInv
<1>1. \A b \in Browsers : stored[b] = None
  BY DEF Init
<1>2. \A w \in Tabs : op[w].at = "idle"
  BY DEF Init, Idle
<1> QED
  BY <1>1, <1>2, SessionsAssumption DEF Stored, Refers, WithToken

\* A step of a tab that stores nothing and answers nothing: it goes on with a
\* token of its browser, if any, and takes the use from its own one at most, to
\* create the next.
LEMMA StoredTab ==
    ASSUME TypeOK, Stored, NEW w \in Tabs, NEW o, Continue(w, o), stored' = stored,
           op[w].at \notin {"creating", "answered"}, o.at # "answered",
           o.at \in WithToken =>
                \/ o.token = stored[Browser(w)]
                \/ op[w].at \in WithToken /\ o.token = op[w].token,
           \A t \in Tokens : OfUse(t) =>
                \/ OfUse(t)'
                \/ o.at = "creating" /\ op[w].at \in WithToken /\ t = op[w].token,
           IssuedInv
    PROVE  Stored'
<1>1. op'[w] = o /\ \A v \in Tabs \ {w} : op'[v] = op[v]
  BY DEF TypeOK, Continue
<1>2. Browser(w) \in Browsers /\ \A v \in Tabs : Browser(v)' = Browser(v)
  BY SessionsAssumption DEF Browser
<1>3. ASSUME NEW b \in Browsers, NEW t \in Tokens, Refers(b, t)'
      PROVE  Refers(b, t)
  BY <1>1, <1>2, <1>3 DEF Refers
<1>4. ASSUME NEW v \in Tabs, op'[v].at = "answered"
      PROVE  /\ OfUse(op[v].token)'
             /\ \A b \in Browsers : stored'[b] # op[v].token
             /\ \A u \in Tabs \ {v} : op'[u].at \in WithToken => op'[u].token # op[v].token
  <2>1. v # w /\ op'[v] = op[v] /\ op[v].at = "answered"
    BY <1>1, <1>4
  <2>2. op[v].token \in Tokens
    BY <2>1 DEF IssuedInv, Issued, WithToken
  <2>3. OfUse(op[v].token) /\ \A b \in Browsers : stored[b] # op[v].token
    BY <2>1 DEF Stored
  <2>4. \A u \in Tabs \ {v} : op[u].at \in WithToken => op[u].token # op[v].token
    BY <2>1 DEF Stored
  <2> QED
    BY <1>1, <1>2, <2>1, <2>2, <2>3, <2>4
<1>5. ASSUME NEW b \in Browsers, stored[b] # None
      PROVE  \/ OfUse(stored[b])'
             \/ \E v \in Tabs : Browser(v) = b /\ op'[v].at \in {"creating", "answered"}
  <2>1. CASE OfUse(stored[b])
    <3>1. stored[b] \in Tokens
      BY <1>5 DEF TypeOK
    <3>2. CASE OfUse(stored[b])'
      BY <3>2
    <3>3. CASE o.at = "creating" /\ op[w].at \in WithToken /\ stored[b] = op[w].token
      <4>1. Refers(b, stored[b]) /\ Refers(Browser(w), stored[b])
        BY <3>3 DEF Refers
      <4>2. Browser(w) = b
        BY <1>2, <3>1, <4>1 DEF Stored
      <4> QED
        BY <1>1, <3>3, <4>2
    <3> QED
      BY <2>1, <3>1, <3>2, <3>3
  <2>2. CASE \E v \in Tabs : Browser(v) = b /\ op[v].at \in {"creating", "answered"}
    BY <1>1, <2>2
  <2> QED
    BY <1>5, <2>1, <2>2 DEF Stored
<1>6. \A v \in Tabs : op'[v].at = "answered" => op'[v] = op[v]
  BY <1>1
<1>7. \A a, b \in Browsers, t \in Tokens : Refers(a, t)' /\ Refers(b, t)' => a = b
  BY <1>3 DEF Stored
<1> QED
  BY <1>2, <1>4, <1>5, <1>6, <1>7 DEF Stored

\* What ends every session ends those whose tokens it takes.
LEMMA RevokedIsEnded ==
    ASSUME TypeOK, RevokeAll, NEW t \in Tokens, OfUse(t)
    PROVE  OfUse(t)'
<1>1. token'[t].family = token[t].family /\ ended' = ended \cup Families
  BY Revocation DEF RevokeAll
<1>2. t \in Live => token[t].family \in Families
  BY DEF Live, Families, Issued
<1> QED
  BY <1>1, <1>2 DEF OfUse

LEMMA StoredRequests ==
    ASSUME TypeOK, IssuedInv, Stored, NEW w \in Tabs, Begin(w)
    PROVE  Stored'
<1> USE DEF rows, Goto
<1>1. CASE forgotPassword(w)
  <2>1. UNCHANGED <<token, ended, stored, op>>
    BY <1>1 DEF forgotPassword, history
  <2> QED
    BY <2>1 DEF Stored, Refers, OfUse, Live, Browser
<1>2. CASE ~forgotPassword(w)
  <2>1. Free(w) /\ UNCHANGED <<token, ended, stored>>
    <3>1. CASE login(w) \/ refreshAccessToken(w) \/ logout(w) \/ changePassword(w)
      BY <3>1 DEF login, refreshAccessToken, logout, changePassword, history
    <3>2. CASE \E l \in Links : resetPassword(w, l)
      BY <3>2 DEF resetPassword, history
    <3> QED
      BY <1>2, <3>1, <3>2 DEF Begin
  <2>2. op[w].at = "idle"
    BY <2>1 DEF Free, Idle
  <2>3. PICK o : /\ Continue(w, o)
                 /\ o.at # "answered"
                 /\ o.at \in WithToken => o.token = stored[Browser(w)]
    <3>1. CASE login(w)
      BY <3>1 DEF login, WithToken
    <3>2. CASE refreshAccessToken(w)
      BY <3>2 DEF refreshAccessToken
    <3>3. CASE logout(w) \/ changePassword(w)
      BY <3>3 DEF logout, changePassword, WithToken
    <3>4. CASE \E l \in Links : resetPassword(w, l)
      BY <3>4 DEF resetPassword, WithToken
    <3> QED
      BY <1>2, <3>1, <3>2, <3>3, <3>4 DEF Begin
  <2>4. \A t \in Tokens : OfUse(t) => OfUse(t)'
    BY <2>1 DEF OfUse, Live
  <2> QED
    BY <2>1, <2>2, <2>3, <2>4, StoredTab
<1> QED
  BY <1>1, <1>2

\* The answer to a request brings a token that nobody has.
LEMMA StoredGenerates ==
    ASSUME TypeOK, IssuedInv, Stored, NEW w \in Tabs, generateTokens(w)
    PROVE  Stored'
<1>1. PICK t \in Tokens \ Issued :
          /\ token' = [token EXCEPT ![t] =
                [state |-> "live", family |-> IF op[w].family = None THEN t ELSE op[w].family]]
          /\ Continue(w, [at |-> "answered", token |-> t])
  BY DEF generateTokens
<1> DEFINE f == IF op[w].family = None THEN t ELSE op[w].family
<1>2. op[w].at = "creating" /\ op[w].family \in Tokens \cup {None}
  BY OperationFields DEF generateTokens, TypeOK, At
<1>3. f \in Tokens
  BY <1>2
<1> HIDE DEF f
<1>4. token' = [token EXCEPT ![t] = [state |-> "live", family |-> f]]
  BY <1>1 DEF f
<1>5. token'[t].state = "live" /\ \A u \in Tokens \ {t} : token'[u] = token[u]
  BY <1>3, <1>4, Generation
<1>6. /\ op'[w] = [at |-> "answered", token |-> t]
      /\ \A v \in Tabs \ {w} : op'[v] = op[v]
  BY <1>1 DEF TypeOK, Continue
<1>7. stored' = stored /\ ended' = ended
  BY DEF generateTokens, history
<1>8. /\ \A b \in Browsers : stored[b] # t
      /\ \A v \in Tabs : op[v].at \in WithToken => op[v].token # t
  BY SessionsAssumption DEF IssuedInv
<1>9. \A u \in Tokens : (OfUse(u) => OfUse(u)') /\ OfUse(t)'
  BY <1>5, <1>7 DEF OfUse, Live, Issued
<1>10. Browser(w) \in Browsers /\ \A v \in Tabs : Browser(v)' = Browser(v)
  BY SessionsAssumption DEF Browser
<1>11. \A a, b \in Browsers, u \in Tokens : Refers(a, u)' /\ Refers(b, u)' => a = b
  <2>1. \A b \in Browsers, u \in Tokens : Refers(b, u)' => IF u = t THEN b = Browser(w) ELSE Refers(b, u)
    BY <1>6, <1>7, <1>8, <1>10 DEF Refers
  <2> QED
    BY <2>1 DEF Stored
<1>12. ASSUME NEW v \in Tabs, op'[v].at = "answered"
       PROVE  /\ OfUse(op[v].token)'
              /\ \A b \in Browsers : stored'[b] # op'[v].token
              /\ \A u \in Tabs \ {v} : op'[u].at \in WithToken => op'[u].token # op'[v].token
  <2>1. CASE v = w
    BY <1>6, <1>7, <1>8, <1>9, <2>1
  <2>2. CASE v # w
    <3>1. op'[v] = op[v] /\ op[v].at = "answered" /\ op[v].token \in Tokens /\ op[v].token # t
      BY <1>6, <1>8, <1>12, <2>2 DEF IssuedInv, Issued, WithToken
    <3>2. /\ OfUse(op[v].token)
          /\ \A b \in Browsers : stored[b] # op[v].token
          /\ \A u \in Tabs \ {v} : op[u].at \in WithToken => op[u].token # op[v].token
      BY <3>1 DEF Stored
    <3> QED
      BY <1>6, <1>7, <1>9, <3>1, <3>2
  <2> QED
    BY <2>1, <2>2
<1>13. ASSUME NEW b \in Browsers, stored[b] # None
       PROVE  \/ OfUse(stored[b])'
              \/ \E v \in Tabs : Browser(v) = b /\ op'[v].at \in {"creating", "answered"}
  <2>1. stored[b] \in Tokens
    BY <1>13 DEF TypeOK
  <2>2. CASE OfUse(stored[b])
    BY <1>7, <1>9, <2>1, <2>2
  <2>3. CASE \E v \in Tabs : Browser(v) = b /\ op[v].at \in {"creating", "answered"}
    BY <1>6, <2>3
  <2> QED
    BY <1>13, <2>2, <2>3 DEF Stored
<1> QED
  BY <1>7, <1>10, <1>11, <1>12, <1>13 DEF Stored

\* A browser takes the token it was answered, or forgets its own.
LEMMA StoredStores ==
    ASSUME TypeOK, IssuedInv, Stored, NEW w \in Tabs, setTokens(w) \/ clearAuth(w)
    PROVE  Stored'
<1>1. /\ op'[w] = Idle /\ \A v \in Tabs \ {w} : op'[v] = op[v]
      /\ UNCHANGED <<token, ended>>
  BY DEF setTokens, clearAuth, Done, Continue, TypeOK, rows, history
<1>2. Browser(w) \in Browsers /\ \A v \in Tabs : Browser(v)' = Browser(v)
  BY SessionsAssumption DEF Browser
<1>3. \A u : OfUse(u)' <=> OfUse(u)
  BY <1>1 DEF OfUse, Live
<1>4. \A b \in Browsers \ {Browser(w)} : stored'[b] = stored[b]
  BY DEF setTokens, clearAuth, TypeOK
<1>5. \/ op[w].at = "refused" /\ stored'[Browser(w)] = None
      \/ op[w].at = "answered" /\ op[w].token \in Tokens /\ stored'[Browser(w)] = op[w].token
  BY <1>2 DEF setTokens, clearAuth, TypeOK, At, IssuedInv, Issued, WithToken
<1>6. ASSUME NEW b \in Browsers, NEW u \in Tokens, Refers(b, u)'
      PROVE  Refers(b, u)
  <2>1. CASE stored'[b] = u
    <3>1. CASE b = Browser(w)
      BY <1>5, <2>1, <3>1, SessionsAssumption DEF Refers, WithToken
    <3>2. CASE b # Browser(w)
      BY <1>4, <2>1, <3>2 DEF Refers
    <3> QED
      BY <3>1, <3>2
  <2>2. CASE \E v \in Tabs : Browser(v) = b /\ op'[v].at \in WithToken /\ op'[v].token = u
    <3>1. PICK v \in Tabs : Browser(v) = b /\ op'[v].at \in WithToken /\ op'[v].token = u
      BY <2>2
    <3>2. v # w
      BY <1>1, <3>1 DEF Idle, WithToken
    <3> QED
      BY <1>1, <3>1, <3>2 DEF Refers
  <2> QED
    BY <1>2, <1>6, <2>1, <2>2 DEF Refers
<1>7. \A a, b \in Browsers, u \in Tokens : Refers(a, u)' /\ Refers(b, u)' => a = b
  BY <1>6 DEF Stored
<1>8. ASSUME NEW v \in Tabs, op'[v].at = "answered"
      PROVE  /\ OfUse(op[v].token)'
             /\ \A b \in Browsers : stored'[b] # op'[v].token
             /\ \A u \in Tabs \ {v} : op'[u].at \in WithToken => op'[u].token # op'[v].token
  <2>1. v # w /\ op'[v] = op[v] /\ op[v].at = "answered"
    BY <1>1, <1>8 DEF Idle
  <2>2. op[v].token \in Tokens
    BY <2>1 DEF IssuedInv, Issued, WithToken
  <2>3. /\ OfUse(op[v].token)
        /\ \A b \in Browsers : stored[b] # op[v].token
        /\ \A u \in Tabs \ {v} : op[u].at \in WithToken => op[u].token # op[v].token
    BY <2>1 DEF Stored
  <2>4. stored'[Browser(w)] # op[v].token
    BY <1>5, <2>1, <2>2, <2>3, SessionsAssumption DEF WithToken
  <2>5. \A u \in Tabs \ {v} : op'[u].at \in WithToken => op'[u].token # op[v].token
    BY <1>1, <2>3 DEF Idle, WithToken
  <2> QED
    BY <1>3, <1>4, <2>1, <2>3, <2>4, <2>5
<1>9. ASSUME NEW b \in Browsers, stored'[b] # None
      PROVE  \/ OfUse(stored[b])'
             \/ \E v \in Tabs : Browser(v) = b /\ op'[v].at \in {"creating", "answered"}
  <2>1. CASE b = Browser(w)
    BY <1>3, <1>5, <1>9, <2>1 DEF Stored
  <2>2. CASE b # Browser(w)
    BY <1>1, <1>3, <1>4, <1>9, <2>2 DEF Stored
  <2> QED
    BY <2>1, <2>2
<1> QED
  BY <1>2, <1>7, <1>8, <1>9 DEF Stored

LEMMA StoredProceeds ==
    ASSUME TypeOK, IssuedInv, SerialInv, Stored, NEW w \in Tabs, Proceed(w)
    PROVE  Stored'
<1> USE DEF rows, history, At, Goto, Done
<1>1. CASE generateTokens(w) \/ setTokens(w) \/ clearAuth(w)
  BY <1>1, StoredGenerates, StoredStores
<1>2. CASE refresh(w)
  <2>1. op[w].at = "asked" /\ UNCHANGED <<token, ended, stored>>
    BY <1>2 DEF refresh
  <2>2. PICK o : /\ Continue(w, o)
                 /\ o.at # "answered"
                 /\ o.at \in WithToken => o.token = op[w].token
    <3>1. op[w].token \in Tokens /\ token[op[w].token].state \in TokenState \ {"unissued"}
      BY <2>1 DEF IssuedInv, Issued, WithToken, TypeOK
    <3>2. ASSUME NEW p \in {"rotating", "counting"},
                 Continue(w, [at |-> p, token |-> op[w].token, active |-> active])
          PROVE  \E o : /\ Continue(w, o)
                        /\ o.at # "answered"
                        /\ o.at \in WithToken => o.token = op[w].token
      BY <3>2
    <3>3. \/ \E p \in {"rotating", "counting"} :
                Continue(w, [at |-> p, token |-> op[w].token, active |-> active])
          \/ Continue(w, [at |-> "reused", token |-> op[w].token])
          \/ Continue(w, [at |-> "refused"])
      BY <1>2, <3>1 DEF refresh, TokenState
    <3> QED
      BY <3>2, <3>3 DEF WithToken
  <2>3. \A t \in Tokens : OfUse(t) => OfUse(t)'
    BY <2>1 DEF OfUse, Live
  <2> QED
    BY <2>1, <2>2, <2>3, StoredTab DEF WithToken
<1>3. CASE revokeFamily(w)
  <2> DEFINE f == token[op[w].token].family
  <2>1. /\ op[w].at = "reused" /\ stored' = stored
        /\ token' = Revoked(Family(f)) /\ ended' = ended \cup {f}
        /\ Continue(w, [at |-> "refused"])
    BY <1>3 DEF revokeFamily
  <2> HIDE DEF f
  <2>2. \A t \in Tokens :
          /\ token'[t].family = token[t].family
          /\ token'[t].state =
              IF t \in Family(f) /\ token[t].state = "live" THEN "revoked" ELSE token[t].state
    BY <2>1, Revocation
  <2>3. \A t \in Tokens : OfUse(t) => OfUse(t)'
    BY <2>1, <2>2 DEF OfUse, Live, Family
  <2> QED
    BY <2>1, <2>3, StoredTab DEF WithToken
<1>4. CASE CountFamily(w)
  <2>1. op[w].at = "counting" /\ UNCHANGED <<token, ended, stored>>
    BY <1>4 DEF CountFamily
  <2>2. PICK o : Continue(w, o) /\ o.at \notin WithToken
    BY <1>4 DEF CountFamily, Renew, WithToken
  <2>3. \A t \in Tokens : OfUse(t) => OfUse(t)'
    BY <2>1 DEF OfUse, Live
  <2> QED
    BY <2>1, <2>2, <2>3, StoredTab DEF WithToken
<1>5. CASE Rotate(w)
  <2> DEFINE t == op[w].token
  <2>1. op[w].at = "rotating" /\ UNCHANGED <<ended, stored>>
    BY <1>5 DEF Rotate
  <2>2. t \in Issued /\ token[t].state = "live"
    BY <2>1 DEF SerialInv, Live, Issued
  <2>3. CASE token' = token /\ Continue(w, [at |-> "barred"])
    <3>1. \A u \in Tokens : OfUse(u) => OfUse(u)'
      BY <2>1, <2>3 DEF OfUse, Live
    <3> QED
      BY <2>1, <2>3, <3>1, StoredTab DEF WithToken
  <2>4. CASE /\ token' = [token EXCEPT ![t].state = "recent"]
             /\ Continue(w, [at |-> "creating", family |-> token[t].family])
    <3>1. \A u \in Tokens \ {t} : token'[u] = token[u]
      BY <2>2, <2>4, Rotation
    <3>2. \A u \in Tokens : OfUse(u) => OfUse(u)' \/ u = t
      BY <2>1, <3>1 DEF OfUse, Live
    <3> QED
      BY <2>1, <2>4, <3>2, StoredTab DEF WithToken
  <2> QED
    BY <1>5, <2>2, <2>3, <2>4 DEF Rotate, Renew
<1>6. CASE revokeAllForUser(w) \/ Leave(w) \/ ChangePassword(w) \/ ResetPassword(w)
  <2>1. /\ RevokeAll /\ stored' = stored
        /\ op[w].at \notin WithToken \cup {"creating"}
        /\ \/ Continue(w, [at |-> "refused"])
           \/ Continue(w, Idle)
    BY <1>6 DEF revokeAllForUser, Leave, ChangePassword, ResetPassword, WithToken
  <2>2. PICK o : Continue(w, o) /\ o.at \in {"refused", "idle"}
    BY <2>1 DEF Idle
  <2>3. \A t \in Tokens : OfUse(t) => OfUse(t)'
    BY <2>1, RevokedIsEnded
  <2> QED
    BY <2>1, <2>2, <2>3, StoredTab DEF WithToken
<1>7. CASE Claim(w)
  <2>1. UNCHANGED <<token, ended, stored>> /\ op[w] \in Operation /\ op[w].at = "claiming"
    BY <1>7 DEF Claim, TypeOK
  <2>2. PICK o : Continue(w, o) /\ o.at \in {"resetting", "idle"}
    <3>1. CASE link[op[w].link] = "open"
      <4>1. Continue(w, [at |-> "resetting", link |-> op[w].link])
        BY <1>7, <2>1, <3>1, ClaimMoves DEF Claim
      <4> QED
        BY <4>1
    <3>2. CASE link[op[w].link] # "open"
      BY <1>7, <3>2 DEF Claim, Idle
    <3> QED
      BY <3>1, <3>2
  <2>3. \A t \in Tokens : OfUse(t) => OfUse(t)'
    BY <2>1 DEF OfUse, Live
  <2> QED
    BY <2>1, <2>2, <2>3, StoredTab DEF WithToken
<1> QED
  BY <1>1, <1>2, <1>3, <1>4, <1>5, <1>6, <1>7 DEF Proceed

LEMMA StoredNext ==
    TypeOK /\ IssuedInv /\ ("overlap" \notin weather => SerialInv) /\ StoredInv /\ [Next]_vars
    => StoredInv'
<1> SUFFICES ASSUME TypeOK, IssuedInv, "overlap" \notin weather => SerialInv, StoredInv,
                    [Next]_vars, Without({"overlap", "late", "lost", "failure"})'
             PROVE  Stored'
  BY DEF StoredInv
<1>1. weather \cap {"overlap", "late", "lost", "failure"} = {} /\ SerialInv /\ Stored
  BY WeatherStays DEF Without, StoredInv
<1>2. CASE UNCHANGED vars
  BY <1>1, <1>2 DEF vars, rows, history, Stored, Refers, OfUse, Live, Browser
<1>3. CASE deactivate \/ activate
  <2>1. UNCHANGED <<stored, op>> /\ (RevokeAll \/ UNCHANGED <<token, ended>>)
    BY <1>3 DEF deactivate, activate, history
  <2>2. \A t \in Tokens : OfUse(t) => OfUse(t)'
    BY <2>1, RevokedIsEnded DEF OfUse, Live
  <2>3. \A w \in Tabs : op[w].at = "answered" => op[w].token \in Tokens
    BY DEF IssuedInv, Issued, WithToken
  <2>4. \A b \in Browsers : stored[b] # None => stored[b] \in Tokens
    BY DEF TypeOK
  <2>5. \A w \in Tabs : op[w].at = "answered" => OfUse(op[w].token)'
    BY <1>1, <2>1, <2>2, <2>3 DEF Stored
  <2>6. \A b \in Browsers :
          \/ stored[b] = None
          \/ OfUse(stored[b])'
          \/ \E w \in Tabs : Browser(w) = b /\ op[w].at \in {"creating", "answered"}
    BY <1>1, <2>1, <2>2, <2>4 DEF Stored
  <2>7. \A b \in Browsers, t \in Tokens : Refers(b, t)' <=> Refers(b, t)
    BY <2>1 DEF Refers, Browser
  <2> QED
    BY <1>1, <2>1, <2>5, <2>6, <2>7 DEF Stored, Browser
<1>4. ASSUME NEW w \in Tabs, Begin(w) \/ Proceed(w)
      PROVE  Stored'
  BY <1>1, <1>4, StoredRequests, StoredProceeds
<1>5. ~Fault
  BY <1>1 DEF Fault, Elapse, LoseAnswer, Fail
<1> QED
  BY <1>2, <1>3, <1>4, <1>5 DEF Next

\* Where every answer arrives, within the grace and of an API that handles one
\* request at a time, a browser whose tabs have all been answered holds a valid
\* token or one of a session that was ended, however its tabs renewed together.
THEOREM StoredValid == Spec => []StoredIsLive
<1> DEFINE Inv == "overlap" \notin weather => SerialInv
<1>1. Init => TypeOK /\ IssuedInv /\ Inv /\ StoredInv
  BY SessionsInit, SerialInit, StoredInit
<1>2. TypeOK /\ IssuedInv /\ Inv /\ StoredInv /\ [Next]_vars
      => TypeOK' /\ IssuedInv' /\ Inv' /\ StoredInv'
  BY SessionsNext, SerialNext, WeatherStays, StoredNext
<1>3. StoredInv => StoredIsLive
  BY DEF StoredInv, Stored, OfUse, StoredIsLive, Free, Idle
<1> QED
  BY <1>1, <1>2, <1>3, PTL DEF Spec

=============================================================================
