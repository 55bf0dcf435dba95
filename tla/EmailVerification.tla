--------------------------- MODULE EmailVerification ---------------------------
(***************************************************************************)
(* The links that confirm a customer's e-mail: made with the account, made *)
(* anew on request, and clicked.  One account: links of two never meet.    *)
(*                                                                         *)
(* Each operation is one transaction at READ COMMITTED.  The mail leaves   *)
(* while the transaction is open, so a link may be clicked before its row  *)
(* is there, and its row may never be.  Row locks only delay: a DELETE     *)
(* that waited finds the row gone.                                         *)
(***************************************************************************)
EXTENDS Naturals, FiniteSets

CONSTANTS
    Operations,     \* slots: transactions under way
    MaxLinks        \* bound: links generated

ASSUME LinksAssumption == MaxLinks \in Nat \ {0}

VARIABLES
    registered,     \* the row of users
    verified,       \* its email_verified_at is set
    links,          \* rows of email_verification_tokens
    expired,        \* links older than TOKEN_TTL_MS
    mailed,         \* links that reached the customer
    operations,
    made,           \* links generated so far: they are numbered as they are made
    uses,           \* history: how often each link confirmed the e-mail
    latest,         \* history: the link committed last (0: none)
    undone,         \* history: links whose transaction failed
    resendsCrossed  \* history: the last resend to commit had run beside another

emailVars == <<registered, verified, links, expired, mailed, operations, made, uses, latest,
               undone, resendsCrossed>>

Links == 1 .. MaxLinks
NoWork == [at |-> "idle"]
Making(k) == operations[k].at \in {"register", "resend"}

EmailInit ==
    /\ registered = FALSE /\ verified = FALSE
    /\ links = {} /\ expired = {} /\ mailed = {}
    /\ operations = [k \in Operations |-> NoWork]
    /\ made = 0
    /\ uses = [l \in Links |-> 0]
    /\ latest = 0 /\ undone = {} /\ resendsCrossed = FALSE

-----------------------------------------------------------------------------
\* generateAndSend: the row is written, the mail sent or lost (.catch).
GenerateAndSend ==
    /\ made < MaxLinks
    /\ made' = made + 1
    /\ mailed' \in {mailed, mailed \cup {made'}}

\* register, up to the commit; users has one row per address.
Register(k) ==
    /\ operations[k] = NoWork
    /\ ~registered /\ \A j \in Operations : ~Making(j)
    /\ GenerateAndSend
    /\ operations' = [operations EXCEPT ![k] = [at |-> "register", link |-> made', old |-> {}, beside |-> FALSE]]
    /\ UNCHANGED <<registered, verified, links, expired, uses, latest, undone, resendsCrossed>>

\* Two resends under way know of each other only here.
Beside(k) ==
    [j \in Operations |-> IF j # k /\ Making(j) THEN [operations[j] EXCEPT !.beside = TRUE] ELSE operations[j]]

\* Mutant of Resend: the links there are stay.
ResendKeeping(k) ==
    /\ operations[k] = NoWork
    /\ registered /\ ~verified
    /\ GenerateAndSend
    /\ operations' = [Beside(k) EXCEPT ![k] =
            [at |-> "resend", link |-> made', old |-> {}, beside |-> \E j \in Operations : Making(j)]]
    /\ UNCHANGED <<registered, verified, links, expired, uses, latest, undone, resendsCrossed>>

\* resend, up to the commit: deleteMany deletes what it finds.
Resend(k) ==
    /\ operations[k] = NoWork
    /\ registered /\ ~verified
    /\ GenerateAndSend
    /\ operations' = [Beside(k) EXCEPT ![k] =
            [at |-> "resend", link |-> made', old |-> links, beside |-> \E j \in Operations : Making(j)]]
    /\ UNCHANGED <<registered, verified, links, expired, uses, latest, undone, resendsCrossed>>

\* runInTenantContext commits.
CommitLink(k) ==
    LET o == operations[k] IN
    /\ Making(k)
    /\ registered' = TRUE
    /\ links' = (links \ o.old) \cup {o.link}
    /\ latest' = o.link
    /\ resendsCrossed' = o.beside
    /\ operations' = [operations EXCEPT ![k] = NoWork]
    /\ UNCHANGED <<verified, expired, mailed, made, uses, undone>>

\* The transaction, or the process, fails; the mail is out.
Undo(k) ==
    /\ operations[k] # NoWork
    /\ undone' = IF Making(k) THEN undone \cup {operations[k].link} ELSE undone
    /\ operations' = [operations EXCEPT ![k] = NoWork]
    /\ UNCHANGED <<registered, verified, links, expired, mailed, made, uses, latest, resendsCrossed>>

\* verify, up to the record it finds; a link it does not find, or an old one, is a 400.
Verify(k, l) ==
    /\ operations[k] = NoWork
    /\ l \in mailed /\ l \in links /\ l \notin expired
    /\ operations' = [operations EXCEPT ![k] = [at |-> "verify", link |-> l]]
    /\ UNCHANGED <<registered, verified, links, expired, mailed, made, uses, latest, undone, resendsCrossed>>

\* The update of the user and the DELETE; a record that is gone by then undoes both.
Confirm(k) ==
    LET l == operations[k].link IN
    /\ operations[k].at = "verify"
    /\ operations' = [operations EXCEPT ![k] = NoWork]
    /\ IF l \in links
       THEN verified' = TRUE /\ links' = links \ {l} /\ uses' = [uses EXCEPT ![l] = @ + 1]
       ELSE UNCHANGED <<verified, links, uses>>
    /\ UNCHANGED <<registered, expired, mailed, made, latest, undone, resendsCrossed>>

\* 24 hours are over for a link, and for those made before it.
Expire(l) ==
    /\ l \in (1 .. made) \ expired
    /\ expired' = expired \cup 1 .. l
    /\ UNCHANGED <<registered, verified, links, mailed, operations, made, uses, latest, undone, resendsCrossed>>

EmailNext ==
    \/ \E k \in Operations :
        \/ Register(k) \/ Resend(k) \/ CommitLink(k) \/ Undo(k) \/ Confirm(k)
        \/ \E l \in Links : Verify(k, l)
    \/ \E l \in Links : Expire(l)

EmailSpec == EmailInit /\ [][EmailNext]_emailVars

-----------------------------------------------------------------------------
EmailTypeOK ==
    /\ {registered, verified, resendsCrossed} \subseteq BOOLEAN
    /\ links \cup expired \cup mailed \cup undone \subseteq 1 .. made
    /\ made \in 0 .. MaxLinks /\ latest \in 0 .. made
    /\ uses \in [Links -> Nat]
    /\ operations \in [Operations ->
            {NoWork} \cup [at : {"verify"}, link : 1 .. made] \cup
            [at : {"register", "resend"}, link : 1 .. made, old : SUBSET (1 .. made), beside : BOOLEAN]]

\* Links whose transaction is over and did not fail.
Committed == {l \in (1 .. made) \ undone : \A k \in Operations : Making(k) => operations[k].link # l}

\* "Uso unico", and "so' o mais recente deve funcionar": a link confirms at most once, two
\* clicks at the same time included; the only link that works is the last one, unless two
\* resends crossed; and a link in the mailbox is dead only because it was used, its
\* transaction failed or is yet to commit, or a link made later replaced it.
LinksWorkAsTold ==
    /\ \A l \in Links : uses[l] <= 1
    /\ ~resendsCrossed => links \subseteq {latest}
    /\ \A l \in mailed \ links :
        uses[l] = 1 \/ l \notin Committed \/ \E m \in Committed : m > l

=============================================================================
