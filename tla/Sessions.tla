------------------------------ MODULE Sessions ------------------------------
(***************************************************************************)
(* The sessions of one user.  The panel keeps one refresh token per        *)
(* browser, in a storage that all of its tabs share, and each tab renews   *)
(* it on its own: the API rotates the token and creates the next one of    *)
(* its family.  A token just rotated is accepted for a short while, one    *)
(* rotated long ago ends its family.  Signing out, changing or resetting   *)
(* the password and being deactivated end every session of the user.       *)
(*                                                                         *)
(* A request is split wherever the code awaits the database.  A refresh    *)
(* token lives for a year and a link to reset the password for an hour:    *)
(* neither runs out here.  Access tokens are left out: a tab may renew at  *)
(* any time.                                                               *)
(***************************************************************************)
EXTENDS Naturals, FiniteSets

CONSTANTS
    MaxTokens,  \* bound: refresh tokens created; a later one has a greater number
    Links,      \* links to reset the password that may be sent
    Browsers,
    Tabs,       \* tabs of the panel; each has one request under way at most
    BrowserOf,  \* BrowserOf[w]: the browser of tab w
    None,
    Weathers    \* sets of faults to consider: a subset of one allows no step more

Faults ==
    {"overlap",  \* the API handles several requests of the user at once
     "late",     \* more than REFRESH_REUSE_GRACE_MS pass after a rotation
     "lost",     \* an answer does not arrive
     "failure"}  \* a query fails or the API stops in the middle of a request

Tokens == 1 .. MaxTokens

ASSUME SessionsAssumption ==
    /\ MaxTokens \in Nat
    /\ BrowserOf \in [Tabs -> Browsers]
    /\ Weathers \subseteq SUBSET Faults
    /\ None \notin Tokens

VARIABLES
    weather,  \* the faults that may happen, chosen once and for all
    active,   \* whether the user may sign in
    token,    \* token[t]: the row of refresh token t, and the family it is of
    stored,   \* stored[b]: the refresh token in the storage of browser b
    link,     \* link[l]: a row of passwordResetToken
    resets,   \* resets[l]: how often l has set a password
    ended,    \* the families that something has ended
    left,     \* whether all sessions of the user were ended once
    op        \* op[w]: the request of tab w

rows == <<token, link, active>>
history == <<resets, ended, left>>
vars == <<weather, rows, stored, history, op>>

\* rotatedAt is set in a recent and in a spent one, within and past the grace.
TokenState == {"unissued", "live", "recent", "spent", "revoked"}

LinkState == {"unsent", "open", "used"}

Idle == [at |-> "idle"]

Operation ==
    {Idle}
    \* a renewal was sent with the token stored; its row was read, and the user's
    \cup [at : {"asked", "reused"}, token : Tokens]
    \cup [at : {"rotating", "counting"}, token : Tokens, active : BOOLEAN]
    \* the user cannot sign in any more
    \cup [at : {"barred"}]
    \* a token is to be created, in a family or in one of its own
    \cup [at : {"creating"}, family : Tokens \cup {None}]
    \* the answers: new tokens, or 401
    \cup [at : {"answered"}, token : Tokens]
    \cup [at : {"refused"}]
    \* a sign-out was sent; a new password was accepted
    \cup [at : {"leaving", "changing"}]
    \* a link was read; then it was claimed
    \cup [at : {"claiming", "resetting"}, link : Links]

Free(w) == op[w] = Idle

At(w, point) == op[w].at = point

Continue(w, operation) == op' = [op EXCEPT ![w] = operation]

Goto(w, point) == Continue(w, [at |-> point])

Done(w) == Continue(w, Idle)

\* Requests that the API is in the middle of.
Handling == {"reused", "rotating", "counting", "barred", "creating", "changing", "claiming", "resetting"}

\* The API may begin another one.
Turn == "overlap" \in weather \/ \A v \in Tabs : op[v].at \notin Handling

Browser(w) == BrowserOf[w]

Live == {t \in Tokens : token[t].state = "live"}

Issued == {t \in Tokens : token[t].state # "unissued"}

Family(f) == {t \in Issued : token[t].family = f}

Families == {token[t].family : t \in Issued}

\* A token is left for every request that may create one.
TokenLeft ==
    Cardinality({v \in Tabs : op[v].at \in {"asked", "rotating", "counting", "creating"}})
    < Cardinality(Tokens \ Issued)

Revoked(tokens) ==
    [t \in Tokens |->
        IF t \in tokens \cap Live THEN [token[t] EXCEPT !.state = "revoked"] ELSE token[t]]

\* revokeUserSessions: also in a transaction with what causes it.
RevokeAll ==
    /\ token' = Revoked(Tokens)
    /\ ended' = ended \cup Families
    /\ left' = TRUE

TypeOK ==
    /\ weather \in Weathers
    /\ active \in BOOLEAN
    /\ token \in [Tokens -> [state : TokenState, family : Tokens \cup {None}]]
    /\ stored \in [Browsers -> Tokens \cup {None}]
    /\ link \in [Links -> LinkState]
    /\ resets \in [Links -> Nat]
    /\ ended \subseteq Tokens
    /\ left \in BOOLEAN
    /\ op \in [Tabs -> Operation]

Init ==
    /\ weather \in Weathers
    /\ active = TRUE
    /\ token = [t \in Tokens |-> [state |-> "unissued", family |-> None]]
    /\ stored = [b \in Browsers |-> None]
    /\ link = [l \in Links |-> "unsent"]
    /\ resets = [l \in Links |-> 0]
    /\ ended = {}
    /\ left = FALSE
    /\ op = [w \in Tabs |-> Idle]

(***************************************************************************)
(* AuthService.login, generateTokens and the answers                       *)
(***************************************************************************)

login(w) ==
    /\ Free(w)
    /\ Turn
    /\ stored[Browser(w)] = None
    /\ active
    /\ TokenLeft
    /\ Continue(w, [at |-> "creating", family |-> None])
    /\ UNCHANGED <<weather, rows, stored, history>>

\* Mutant: the first token of a session has no family.
generateTokens_NoFamily(w) ==
    /\ At(w, "creating")
    /\ \E t \in Tokens \ Issued :
        /\ \A u \in Tokens \ Issued : t <= u
        /\ token' = [token EXCEPT ![t] = [state |-> "live", family |-> op[w].family]]
        /\ Continue(w, [at |-> "answered", token |-> t])
    /\ UNCHANGED <<weather, link, active, stored, history>>

generateTokens(w) ==
    /\ At(w, "creating")
    /\ \E t \in Tokens \ Issued :
        /\ \A u \in Tokens \ Issued : t <= u
        /\ token' = [token EXCEPT ![t] =
                [state |-> "live", family |-> IF op[w].family = None THEN t ELSE op[w].family]]
        /\ Continue(w, [at |-> "answered", token |-> t])
    /\ UNCHANGED <<weather, link, active, stored, history>>

\* Mutant: only the access token is replaced.
setTokens_Access(w) ==
    /\ At(w, "answered")
    /\ stored' = [stored EXCEPT ![Browser(w)] = IF @ = None THEN op[w].token ELSE @]
    /\ Done(w)
    /\ UNCHANGED <<weather, rows, history>>

setTokens(w) ==
    /\ At(w, "answered")
    /\ stored' = [stored EXCEPT ![Browser(w)] = op[w].token]
    /\ Done(w)
    /\ UNCHANGED <<weather, rows, history>>

\* Whatever is stored by then.
clearAuth(w) ==
    /\ At(w, "refused")
    /\ stored' = [stored EXCEPT ![Browser(w)] = None]
    /\ Done(w)
    /\ UNCHANGED <<weather, rows, history>>

(***************************************************************************)
(* AuthService.refresh                                                     *)
(***************************************************************************)

refreshAccessToken(w) ==
    /\ Free(w)
    /\ stored[Browser(w)] # None
    /\ TokenLeft
    /\ Continue(w, [at |-> "asked", token |-> stored[Browser(w)]])
    /\ UNCHANGED <<weather, rows, stored, history>>

\* Mutant: a rotated token is never accepted.
refresh_NoGrace(w) ==
    /\ At(w, "asked")
    /\ Turn
    /\ LET t == op[w].token IN
        CASE token[t].state = "live" ->
                Continue(w, [at |-> "rotating", token |-> t, active |-> active])
          [] token[t].state \in {"recent", "spent"} -> Continue(w, [at |-> "reused", token |-> t])
          [] token[t].state = "revoked" -> Goto(w, "refused")
    /\ UNCHANGED <<weather, rows, stored, history>>

refresh(w) ==
    /\ At(w, "asked")
    /\ Turn
    /\ LET t == op[w].token IN
        CASE token[t].state = "live" ->
                Continue(w, [at |-> "rotating", token |-> t, active |-> active])
          [] token[t].state = "recent" ->
                Continue(w, [at |-> "counting", token |-> t, active |-> active])
          [] token[t].state = "spent" -> Continue(w, [at |-> "reused", token |-> t])
          [] token[t].state = "revoked" -> Goto(w, "refused")
    /\ UNCHANGED <<weather, rows, stored, history>>

revokeFamily(w) ==
    /\ At(w, "reused")
    /\ LET f == token[op[w].token].family IN
        /\ token' = Revoked(Family(f))
        /\ ended' = ended \cup {f}
    /\ Goto(w, "refused")
    /\ UNCHANGED <<weather, link, active, stored, resets, left>>

Renew(w) == Continue(w, [at |-> "creating", family |-> token[op[w].token].family])

\* Mutant: a token rotated a moment ago is enough.
FamilyAlive_Always(t) == TRUE

FamilyAlive(t) == Family(token[t].family) \cap Live # {}

\* familyAlive, for a token that was rotated a moment ago.
CountFamily(w) ==
    /\ At(w, "counting")
    /\ CASE ~FamilyAlive(op[w].token) -> Goto(w, "refused")
         [] FamilyAlive(op[w].token) /\ ~op[w].active -> Goto(w, "barred")
         [] OTHER -> Renew(w)
    /\ UNCHANGED <<weather, rows, stored, history>>

\* A conditional update; if it comes too late, whoever rotated it may have
\* done so within the grace.
Rotate(w) ==
    /\ At(w, "rotating")
    /\ LET t == op[w].token IN
        \/ /\ ~op[w].active
           /\ Goto(w, "barred")
           /\ UNCHANGED token
        \/ /\ op[w].active /\ token[t].state = "live"
           /\ token' = [token EXCEPT ![t].state = "recent"]
           /\ Renew(w)
        \/ /\ op[w].active /\ token[t].state # "live"
           /\ IF token[t].state = "recent" THEN Renew(w) ELSE Goto(w, "refused")
           /\ UNCHANGED token
    /\ UNCHANGED <<weather, link, active, stored, history>>

revokeAllForUser(w) ==
    /\ At(w, "barred")
    /\ RevokeAll
    /\ Goto(w, "refused")
    /\ UNCHANGED <<weather, link, active, stored, resets>>

(***************************************************************************)
(* logout, changePassword, forgotPassword, resetPassword; UsersService     *)
(***************************************************************************)

\* The panel sends no refresh token with it, and forgets its own in any case.
logout(w) ==
    /\ Free(w)
    /\ stored[Browser(w)] # None
    /\ Goto(w, "leaving")
    /\ UNCHANGED <<weather, rows, stored, history>>

Leave(w) ==
    /\ At(w, "leaving")
    /\ Turn
    /\ RevokeAll
    /\ Goto(w, "refused")
    /\ UNCHANGED <<weather, link, active, stored, resets>>

\* The tab keeps its token, which is no use any more.
changePassword(w) ==
    /\ Free(w)
    /\ Turn
    /\ stored[Browser(w)] # None
    /\ Goto(w, "changing")
    /\ UNCHANGED <<weather, rows, stored, history>>

ChangePassword(w) ==
    /\ At(w, "changing")
    /\ RevokeAll
    /\ Done(w)
    /\ UNCHANGED <<weather, link, active, stored, resets>>

forgotPassword(w) ==
    /\ Free(w)
    /\ Turn
    /\ active
    /\ \E l \in Links :
        /\ link[l] = "unsent"
        /\ link' = [k \in Links |->
              IF k = l THEN "open" ELSE IF link[k] = "open" THEN "used" ELSE link[k]]
    /\ UNCHANGED <<weather, active, token, stored, history, op>>

resetPassword(w, l) ==
    /\ Free(w)
    /\ Turn
    /\ link[l] = "open"
    /\ Continue(w, [at |-> "claiming", link |-> l])
    /\ UNCHANGED <<weather, rows, stored, history>>

\* Mutant: the link is marked as used by its id alone.
Claim_ById(w) ==
    /\ At(w, "claiming")
    /\ link' = [link EXCEPT ![op[w].link] = "used"]
    /\ Continue(w, [op[w] EXCEPT !.at = "resetting"])
    /\ UNCHANGED <<weather, token, active, stored, history>>

Claim(w) ==
    /\ At(w, "claiming")
    /\ IF link[op[w].link] = "open"
       THEN /\ link' = [link EXCEPT ![op[w].link] = "used"]
            /\ Continue(w, [op[w] EXCEPT !.at = "resetting"])
       ELSE Done(w) /\ UNCHANGED link
    /\ UNCHANGED <<weather, token, active, stored, history>>

ResetPassword(w) ==
    /\ At(w, "resetting")
    /\ RevokeAll
    /\ resets' = [resets EXCEPT ![op[w].link] = @ + 1]
    /\ Done(w)
    /\ UNCHANGED <<weather, link, active, stored>>

\* UsersService.update: one transaction.
deactivate ==
    /\ Turn
    /\ active
    /\ active' = FALSE
    /\ RevokeAll
    /\ UNCHANGED <<weather, link, stored, resets, op>>

activate ==
    /\ Turn
    /\ ~active
    /\ active' = TRUE
    /\ UNCHANGED <<weather, token, link, stored, history, op>>

(***************************************************************************)
(* Specification                                                           *)
(***************************************************************************)

\* The grace of a rotated token ends.
Elapse(t) ==
    /\ "late" \in weather
    /\ token[t].state = "recent"
    /\ token' = [token EXCEPT ![t].state = "spent"]
    /\ UNCHANGED <<weather, link, active, stored, history, op>>

\* The tab finds that it has no connection, and keeps its token.
LoseAnswer(w) ==
    /\ "lost" \in weather
    /\ op[w].at \in {"asked", "answered", "refused"}
    /\ Done(w)
    /\ UNCHANGED <<weather, rows, stored, history>>

Fail(w) ==
    /\ "failure" \in weather
    /\ op[w].at \in Handling
    /\ Done(w)
    /\ UNCHANGED <<weather, rows, stored, history>>

Begin(w) ==
    \/ login(w)
    \/ refreshAccessToken(w)
    \/ logout(w)
    \/ changePassword(w)
    \/ forgotPassword(w)
    \/ \E l \in Links : resetPassword(w, l)

Proceed(w) ==
    \/ generateTokens(w)
    \/ setTokens(w)
    \/ clearAuth(w)
    \/ refresh(w)
    \/ revokeFamily(w)
    \/ CountFamily(w)
    \/ Rotate(w)
    \/ revokeAllForUser(w)
    \/ Leave(w)
    \/ ChangePassword(w)
    \/ Claim(w)
    \/ ResetPassword(w)

Fault ==
    \/ \E t \in Tokens : Elapse(t)
    \/ \E w \in Tabs : LoseAnswer(w) \/ Fail(w)

Next ==
    \/ \E w \in Tabs : Begin(w) \/ Proceed(w)
    \/ deactivate
    \/ activate
    \/ Fault

Spec == Init /\ [][Next]_vars

(***************************************************************************)
(* Properties                                                              *)
(***************************************************************************)

Without(faults) == weather \cap faults = {}

\* Until the user ends a session, a browser that has signed in stays so,
\* however its tabs renew its token together or lose the answers, if they ask
\* again within the grace and the API handles one request at a time.
StaysSignedIn ==
    [][Without({"overlap", "late", "failure"}) /\ ~left
       => \A b \in Browsers : stored[b] # None => stored'[b] # None]_vars

\* While the API handles one request at a time, no session comes back: once
\* its family was ended, by the reuse of an old token or with all sessions of
\* the user, no token of it is valid, and no rotated one brings it back.
EndedStaysEnded ==
    Without({"overlap"}) => \A t \in Live : token[t].family \notin ended

\* A browser all of whose tabs have their answers holds a valid token, unless
\* its session was ended: tabs that renewed together never leave one that was
\* rotated.
StoredIsLive ==
    Without({"overlap", "late", "lost", "failure"})
    => \A b \in Browsers :
        (stored[b] # None /\ \A w \in Tabs : Browser(w) = b => Free(w))
        => stored[b] \in Live \/ token[stored[b]].family \in ended

\* However many requests use it at once, a link sets one password at most.
LinkResetsOnce == \A l \in Links : resets[l] <= 1

=============================================================================
