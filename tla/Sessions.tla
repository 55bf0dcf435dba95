------------------------------- MODULE Sessions -------------------------------
(***************************************************************************)
(* The sessions of the accounts of a pizzeria: AuthService.refresh, login, *)
(* issueTokens and logout of apps/api, while StaffService.update turns     *)
(* accounts on and off.                                                    *)
(*                                                                         *)
(* A refresh is a sequence of transactions, one per statement: read the    *)
(* token, revoke it, read the account again (staff only), insert the next  *)
(* token of the family.  Anything may happen between two of them.          *)
(* Deactivation is one READ COMMITTED transaction that writes the account  *)
(* and revokes the sessions it sees; what it wrote appears at its commit.  *)
(*                                                                         *)
(* A request issues at most one token, so a token is named by its request, *)
(* and a family by the login that began it.  Clients present any token     *)
(* ever issued, at any time: a lost answer is a client with an old token.  *)
(***************************************************************************)
EXTENDS Naturals

CONSTANTS
    Accounts,
    Staff,      \* the accounts whose role is tenant_staff
    Requests,   \* the logins, refreshes and logouts the API will receive
    Updates,    \* the PATCHes of staff accounts it will receive
    None

ASSUME StaffAssumption == Staff \subseteq Accounts
ASSUME NoneAssumption == None \notin Accounts \cup Requests

VARIABLES
    active,     \* users.active, committed
    rows,       \* committed rows of refresh_tokens
    revoked,    \* those whose revoked_at is set
    pc,         \* where each request stands
    owner,      \* whose session a request is about
    family,     \* the family of that session
    presented,  \* the token it presented (None: a login)
    stage,      \* where each PATCH stands
    target,     \* the account it updates
    want,       \* dto.active
    was,        \* existing.active, as it read it
    held,       \* tokens it has revoked and so locked until it ends
    overlaps,   \* history: <<r, u>> when r was issuing while u was running
    doubled     \* history: families with a token that two refreshes held at once

sessions == <<rows, revoked>>
requests == <<pc, owner, family, presented>>
updates == <<stage, target, want, was, held>>
history == <<overlaps, doubled>>
vars == <<active, sessions, requests, updates, history>>

Running == {"read", "written", "revoked"}
UpdateStages == {"idle", "committed", "failed"} \cup Running
Ended == {"done", "refused", "failed"}
Stages == {"idle", "reused", "valid", "rotating", "ready"} \cup Ended

Live == rows \ revoked

RunningOn(a) == {u \in Updates : stage[u] \in Running /\ target[u] = a}

\* The row of token t has an uncommitted update.
Locked(t) == \E u \in Updates : stage[u] = "revoked" /\ t \in held[u]

Goto(r, s) == pc' = [pc EXCEPT ![r] = s]

UpdateTo(u, s) == stage' = [stage EXCEPT ![u] = s]

Init ==
    /\ active \in {f \in [Accounts -> BOOLEAN] : \A a \in Accounts \ Staff : f[a]}
    /\ rows = {} /\ revoked = {}
    /\ pc = [r \in Requests |-> "idle"]
    /\ owner = [r \in Requests |-> None]
    /\ family = [r \in Requests |-> None]
    /\ presented = [r \in Requests |-> None]
    /\ stage = [u \in Updates |-> "idle"]
    /\ target \in [Updates -> Staff]
    /\ want = [u \in Updates |-> FALSE]
    /\ was = [u \in Updates |-> FALSE]
    /\ held = [u \in Updates |-> {}]
    /\ overlaps = {} /\ doubled = {}

-----------------------------------------------------------------------------
\* Mutant of Login: the login does not begin a family.
LoginWithoutFamily(r, a) ==
    /\ pc[r] = "idle"
    /\ active[a]
    /\ Goto(r, "ready")
    /\ owner' = [owner EXCEPT ![r] = a]
    /\ overlaps' = overlaps \cup ({r} \X RunningOn(a))
    /\ UNCHANGED <<active, sessions, family, presented, updates, doubled>>

\* validateCredentials reads the account; an inactive one, or a bad password,
\* is refused.  The token is issued later.
Login(r, a) ==
    /\ pc[r] = "idle"
    /\ \/ /\ active[a]
          /\ Goto(r, "ready")
          /\ owner' = [owner EXCEPT ![r] = a]
          /\ family' = [family EXCEPT ![r] = r]
          /\ overlaps' = overlaps \cup ({r} \X RunningOn(a))
       \/ /\ Goto(r, "refused")
          /\ UNCHANGED <<owner, family, overlaps>>
    /\ UNCHANGED <<active, sessions, presented, updates, doubled>>

\* refresh() finds the row of the token: already revoked, expired or valid.
ReadToken(r, t) ==
    /\ pc[r] = "idle"
    /\ t \in rows
    /\ \/ /\ t \in revoked
          /\ Goto(r, "reused")
          /\ UNCHANGED doubled
       \/ /\ t \notin revoked
          /\ Goto(r, "refused")
          /\ UNCHANGED doubled
       \/ /\ t \notin revoked
          /\ Goto(r, "valid")
          /\ doubled' = doubled \cup
                {family[t] : q \in {p \in Requests : pc[p] = "valid" /\ presented[p] = t}}
    /\ owner' = [owner EXCEPT ![r] = owner[t]]
    /\ family' = [family EXCEPT ![r] = family[t]]
    /\ presented' = [presented EXCEPT ![r] = t]
    /\ UNCHANGED <<active, sessions, updates, overlaps>>

FamilyOf(t) == {s \in rows : family[s] = family[t]}

\* revokeFamily after a reuse: the rows of the family that are there.
RevokeFamily(r) ==
    /\ pc[r] = "reused"
    /\ ~\E t \in FamilyOf(presented[r]) : Locked(t)
    /\ Goto(r, "refused")
    /\ revoked' = revoked \cup FamilyOf(presented[r])
    /\ UNCHANGED <<active, rows, owner, family, presented, updates, history>>

\* Mutant of RevokeOne: the token stays good until it expires.
RevokeNone(r) ==
    /\ pc[r] = "valid"
    /\ Goto(r, "rotating")
    /\ UNCHANGED <<active, sessions, owner, family, presented, updates, history>>

\* revokeOne: by id, whatever became of the token since it was read.
RevokeOne(r) ==
    /\ pc[r] = "valid"
    /\ ~Locked(presented[r])
    /\ Goto(r, "rotating")
    /\ revoked' = revoked \cup {presented[r]}
    /\ UNCHANGED <<active, rows, owner, family, presented, updates, history>>

\* Mutant of CheckActive: the token is trusted for the state of the account.
CheckNothing(r) ==
    /\ pc[r] = "rotating"
    /\ Goto(r, "ready")
    /\ overlaps' = overlaps \cup ({r} \X RunningOn(owner[r]))
    /\ UNCHANGED <<active, sessions, owner, family, presented, updates, doubled>>

\* Staff only: the account is read again and an inactive one gets nothing.
CheckActive(r) ==
    /\ pc[r] = "rotating"
    /\ \/ /\ owner[r] \in Staff => active[owner[r]]
          /\ Goto(r, "ready")
          /\ overlaps' = overlaps \cup ({r} \X RunningOn(owner[r]))
       \/ /\ owner[r] \in Staff /\ ~active[owner[r]]
          /\ Goto(r, "refused")
          /\ UNCHANGED overlaps
    /\ UNCHANGED <<active, sessions, owner, family, presented, updates, doubled>>

\* issueTokens inserts the row and answers.
Issue(r) ==
    /\ pc[r] = "ready"
    /\ Goto(r, "done")
    /\ rows' = rows \cup {r}
    /\ UNCHANGED <<active, revoked, owner, family, presented, updates, history>>

\* logout revokes the family of whatever token it is given.
Logout(r, t) ==
    /\ pc[r] = "idle"
    /\ t \in rows
    /\ ~\E s \in FamilyOf(t) : Locked(s)
    /\ Goto(r, "done")
    /\ revoked' = revoked \cup FamilyOf(t)
    /\ UNCHANGED <<active, rows, owner, family, presented, updates, history>>

\* A statement fails or the process stops: what was committed stays.
Fail(r) ==
    /\ pc[r] \in {"reused", "valid", "rotating", "ready"}
    /\ Goto(r, "failed")
    /\ UNCHANGED <<active, sessions, owner, family, presented, updates, history>>

-----------------------------------------------------------------------------
\* StaffService.update begins: findFirst reads the account without a lock.
ReadStaff(u, on) ==
    /\ stage[u] = "idle"
    /\ UpdateTo(u, "read")
    /\ want' = [want EXCEPT ![u] = on]
    /\ was' = [was EXCEPT ![u] = active[target[u]]]
    /\ overlaps' = overlaps \cup
            ({r \in Requests : pc[r] = "ready" /\ owner[r] = target[u]} \X {u})
    /\ UNCHANGED <<active, sessions, requests, target, held, doubled>>

\* user.update waits for the row, and locks it.
WriteStaff(u) ==
    /\ stage[u] = "read"
    /\ ~\E v \in Updates : stage[v] \in {"written", "revoked"} /\ target[v] = target[u]
    /\ UpdateTo(u, "written")
    /\ UNCHANGED <<active, sessions, requests, target, want, was, held, history>>

\* "desativar" as far as the transaction can tell: it turns off what it read on.
Deactivates(u) == was[u] /\ ~want[u]

\* revokeAllSessionsForUser, in the same transaction.
RevokeAll(u) ==
    /\ stage[u] = "written" /\ Deactivates(u)
    /\ UpdateTo(u, "revoked")
    /\ held' = [held EXCEPT ![u] = {t \in Live : owner[t] = target[u]}]
    /\ UNCHANGED <<active, sessions, requests, target, want, was, history>>

CommitStaff(u) ==
    /\ stage[u] = (IF Deactivates(u) THEN "revoked" ELSE "written")
    /\ UpdateTo(u, "committed")
    /\ active' = [active EXCEPT ![target[u]] = want[u]]
    /\ revoked' = revoked \cup held[u]
    /\ UNCHANGED <<rows, requests, target, want, was, held, history>>

RollbackStaff(u) ==
    /\ stage[u] \in Running
    /\ UpdateTo(u, "failed")
    /\ UNCHANGED <<active, sessions, requests, target, want, was, held, history>>

-----------------------------------------------------------------------------
Next ==
    \/ \E r \in Requests :
        \/ \E a \in Accounts : Login(r, a)
        \/ \E t \in rows : ReadToken(r, t) \/ Logout(r, t)
        \/ RevokeFamily(r) \/ RevokeOne(r) \/ CheckActive(r) \/ Issue(r) \/ Fail(r)
    \/ \E u \in Updates :
        \/ \E on \in BOOLEAN : ReadStaff(u, on)
        \/ WriteStaff(u) \/ RevokeAll(u) \/ CommitStaff(u) \/ RollbackStaff(u)

Spec == Init /\ [][Next]_vars

-----------------------------------------------------------------------------
TypeOK ==
    /\ active \in [Accounts -> BOOLEAN]
    /\ rows \subseteq {r \in Requests : pc[r] = "done"}
    /\ revoked \subseteq rows
    /\ pc \in [Requests -> Stages]
    /\ owner \in [Requests -> Accounts \cup {None}]
    /\ family \in [Requests -> Requests \cup {None}]
    /\ presented \in [Requests -> rows \cup {None}]
    /\ \A r \in Requests :
        /\ pc[r] = "ready" \/ r \in rows => owner[r] # None /\ family[r] # None
        /\ pc[r] \in {"reused", "valid", "rotating"} =>
            /\ presented[r] # None
            /\ owner[r] = owner[presented[r]] /\ family[r] = family[presented[r]]
    /\ stage \in [Updates -> UpdateStages]
    /\ target \in [Updates -> Staff]
    /\ want \in [Updates -> BOOLEAN]
    /\ was \in [Updates -> BOOLEAN]
    /\ held \in [Updates -> SUBSET rows]
    /\ overlaps \subseteq Requests \X Updates
    /\ doubled \subseteq Requests

\* Rotation: a family has one token that works, unless two refreshes had read
\* one and the same token of it as valid at the same time.  Logouts, reuses,
\* deactivations and failures in between change nothing about it.
OneLiveTokenPerFamily ==
    \A s, t \in Live : family[s] = family[t] => s = t \/ family[s] \in doubled

\* "desativar revoga TODAS as sessoes do funcionario na hora": a session that
\* works for an account that is off was being issued while the PATCH that turned
\* it off was running; none is older, and no refresh makes it a younger one.
OnlyRacingSessionsSurvive ==
    \A t \in Live : ~active[owner[t]] =>
        \E u \in Updates : stage[u] = "committed" /\ ~want[u] /\ <<t, u>> \in overlaps

\* "Mantido pra nunca reemitir um access token novo pra uma conta desativada,
\* mesmo numa corrida": a refresh never issues to an account that is off.  The
\* account may be turned off between refresh's look at it and the insert.
NeverReissuedToInactive ==
    [][\A r \in rows' \ rows : presented[r] # None => active[owner[r]]]_vars

=============================================================================
