------------------------------- MODULE Pizzeria -------------------------------
(***************************************************************************)
(* What a pizzeria manages besides its menu: stock, staff, finance,        *)
(* settings and log; and the links that confirm e-mails.  As modelled they *)
(* share no state and stand side by side: a behaviour is of one of them.   *)
(***************************************************************************)
EXTENDS Stock, Team, Finance, Store, AuditRetention, EmailVerification

VARIABLE mounted

pizzeriaVars == <<stockVars, teamVars, financeVars, storeVars, auditVars, emailVars, mounted>>

Parts == {"stock", "team", "finance", "store", "audit", "email"}

PizzeriaInit ==
    /\ mounted \in Parts
    /\ StockInit /\ TeamInit /\ FinanceInit /\ StoreInit /\ AuditInit /\ EmailInit

PizzeriaNext ==
    /\ UNCHANGED mounted
    /\ \/ mounted = "stock" /\ StockNext /\ UNCHANGED <<teamVars, financeVars, storeVars, auditVars, emailVars>>
       \/ mounted = "team" /\ TeamNext /\ UNCHANGED <<stockVars, financeVars, storeVars, auditVars, emailVars>>
       \/ mounted = "finance" /\ FinanceNext /\ UNCHANGED <<stockVars, teamVars, storeVars, auditVars, emailVars>>
       \/ mounted = "store" /\ StoreNext /\ UNCHANGED <<stockVars, teamVars, financeVars, auditVars, emailVars>>
       \/ mounted = "audit" /\ AuditNext /\ UNCHANGED <<stockVars, teamVars, financeVars, storeVars, emailVars>>
       \/ mounted = "email" /\ EmailNext /\ UNCHANGED <<stockVars, teamVars, financeVars, storeVars, auditVars>>

PizzeriaSpec == PizzeriaInit /\ [][PizzeriaNext]_pizzeriaVars

\* The types of the six.
PizzeriaTypeOK ==
    /\ StockTypeOK /\ TeamTypeOK /\ FinanceTypeOK /\ StoreTypeOK /\ AuditTypeOK
    /\ EmailTypeOK

=============================================================================
