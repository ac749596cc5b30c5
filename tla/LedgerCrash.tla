---------------------------- MODULE LedgerCrash -----------------------------
(***************************************************************************)
(* The ledger of module Ledger when the process may also end in the middle *)
(* of accepting a transaction or of letting one mature: what the databases *)
(* may hold when the new process opens them.  Module LedgerSteps, which    *)
(* takes every LevelDB write as a step, implements this specification.     *)
(***************************************************************************)
EXTENDS Ledger

\* write_txn_to_db: the spent flags go first, one input after the other, the
\* transaction itself last.
TornWrite(s, t, ts) ==
    {Spend(s, done) : done \in SUBSET Inputs[t]} \union {WriteTxnToDb(s, t, ts)}

\* The pending branch of process_block: the pending entry goes first, the spent
\* flags follow.
TornPend(s, t) ==
    {s} \union {Spend(PutInPend(s, t, s.now), done) : done \in SUBSET Inputs[t]}

\* The process ends with the store left as torn.
CrashWith(torn) ==
    /\ restarts < MaxRestarts
    /\ restarts' = restarts + 1
    /\ store' = Reopen(torn)
    /\ blockQueue' = << >>
    /\ todo' = << >>
    /\ processing' = FALSE
    /\ applying' = << >>
    /\ sweep' = Nothing
    /\ UNCHANGED applied

\* The process ends while process_block accepts a transaction, after verify_txn
\* has removed what the transaction replaces.
CrashInAccept ==
    /\ ReactorMayRun
    /\ todo # << >>
    /\ VerifyTxn(store, Head(todo), TRUE)
    /\ LET t == Head(todo)
           v == DropReplaced(store, t)
       IN  \E torn \in IF Timelock[t] > 0 THEN TornPend(v, t) ELSE TornWrite(v, t, store.now) :
              CrashWith(torn)

\* The process ends while update_pend turns a pending transaction into a stored
\* one, or drops it.
CrashInMature ==
    \E p \in DOMAIN sweep :
        LET d == DelFromPending(store, p)
        IN  /\ LockExpired(store, p, sweep[p])
            /\ \E torn \in {d} \union
                           (IF VerifyTxn(d, p, FALSE) THEN TornWrite(d, p, sweep[p])
                                                      ELSE {Reject(d, p)}) :
                  CrashWith(torn)

CrashNext == Next \/ CrashInAccept \/ CrashInMature

CrashSpec == Init /\ [][CrashNext]_vars
=============================================================================
