------------------------------- MODULE Events -------------------------------
(***************************************************************************)
(* The events processor (processors/events_processor.rs and                *)
(* models/events_models/events.rs).  Besides the events a user transaction *)
(* emits it stores one event of its own for each multisig account the      *)
(* transaction writes.                                                     *)
(***************************************************************************)
EXTENDS Parsing

MultisigAccount == "0x1::multisig_account::MultisigAccount"

FILTERED_EVENTS ==
    {"0x1::transaction_fee::FeeStatement",
     "0x1::multisig_account::create_with_owners"}

\* Those of the list that the chains studied emit.
REQUIRED_EVENTS ==
    {"0x1::multisig_account::CreateTransactionEvent",
     "0x1::multisig_account::VoteEvent"}

\* from_event: index is the position given by the caller, from 0.
from_event(e, txn, v, index) ==
    Row("events", [transaction_version |-> v, event_index |-> index], v,
        [type |-> e.type, account |-> e.address, from |-> txn.sender])

\* Types and entry functions are looked for in the same list.
Kept(e, txn) ==
    /\ e.type \notin FILTERED_EVENTS \/ e.type \in REQUIRED_EVENTS
    /\ txn.entry_function \notin FILTERED_EVENTS

from_events(txn, v) ==
    Emit(txn.events, LAMBDA i :
        Optional(Kept(txn.events[i], txn), <<from_event(txn.events[i], txn, v, i - 1)>>))

\* The event made up for a multisig account has the number of events of the
\* batch so far as its index.
multisig_event(acc, c, txn, v) ==
    Push(acc, Optional(WritesResource(c, MultisigAccount),
        <<from_event([type |-> c.type, address |-> txn.sender], txn, v, Len(acc.rows))>>))

EventsParse(acc, txn, v) ==
    IF txn.kind # "user" THEN acc
    ELSE Push(Over(txn.changes, LAMBDA a, i : multisig_event(a, txn.changes[i], txn, v), acc),
              from_events(txn, v))
=============================================================================
