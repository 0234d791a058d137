--------------------------- MODULE DurableOutbox ---------------------------
(***************************************************************************)
(* What the uplink's spool, drain and acknowledgements promise together    *)
(* (the header of src/cloud/uplinkspool.h): an accepted message leaves the *)
(* outbox because the broker has it, because newer messages filled the     *)
(* outbox, or because the driver unpaired the dash; a power cut costs at   *)
(* most the newest one.  How messages are batched, sent, sent again and    *)
(* acknowledged is not said here.                                          *)
(***************************************************************************)
EXTENDS Integers, FiniteSets

CONSTANT Capacity   \* accepted messages kept when newer ones arrive

VARIABLES
    backlog,    \* accepted rows: [id, car, kind, sid, seq]
    delivered,  \* the messages the broker has
    paired,     \* a credential is stored
    powered     \* the program runs

outboxVars == <<backlog, delivered, paired, powered>>

Content(r) == [car |-> r.car, kind |-> r.kind, sid |-> r.sid, seq |-> r.seq]

\* T is S without some of its oldest rows.
FrontRemoved(S, T) ==
    /\ T \subseteq S
    /\ \A p \in S \ T : \A q \in T : p.id < q.id

OutboxInit ==
    /\ backlog = {} /\ delivered = {}
    /\ paired \in BOOLEAN /\ powered = FALSE

----------------------------------------------------------------------------
\* A message joins at the back; the oldest give way to it when it overflows.
Accept ==
    /\ powered
    /\ \E row \in backlog' \ backlog :
          /\ \A r \in backlog : r.id < row.id
          /\ FrontRemoved(backlog \cup {row}, backlog')
          /\ backlog \subseteq backlog' \/ Cardinality(backlog') >= Capacity
    /\ UNCHANGED <<paired, powered>>

\* Messages the broker has are forgotten, oldest first.
Forget ==
    /\ powered
    /\ FrontRemoved(backlog, backlog')
    /\ \A r \in backlog \ backlog' : Content(r) \in delivered
    /\ UNCHANGED <<paired, powered>>

\* Unpairing discards whatever waits.
Unpair ==
    /\ powered
    /\ paired /\ ~paired'
    /\ backlog' = {}
    /\ UNCHANGED powered

Pair ==
    /\ powered
    /\ ~paired /\ paired'
    /\ UNCHANGED <<backlog, powered>>

Deliver == UNCHANGED <<backlog, paired, powered>>

SwitchOn ==
    /\ ~powered /\ powered'
    /\ UNCHANGED <<backlog, paired>>

\* The program ends.  A power cut may cost the newest row, or bring back rows
\* that had left: the oldest again.
SwitchOff ==
    /\ powered /\ ~powered'
    /\ \/ backlog' = backlog
       \/ \E newest \in backlog :
             /\ \A r \in backlog : r.id <= newest.id
             /\ backlog' = backlog \ {newest}
       \/ FrontRemoved(backlog', backlog)
    /\ UNCHANGED paired

\* What the broker has, it keeps.
OutboxNext ==
    /\ delivered \subseteq delivered'
    /\ Accept \/ Forget \/ Unpair \/ Pair \/ Deliver \/ SwitchOn \/ SwitchOff

OutboxSpec == OutboxInit /\ [][OutboxNext]_outboxVars
=============================================================================
