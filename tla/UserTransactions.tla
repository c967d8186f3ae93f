-------------------------- MODULE UserTransactions --------------------------
(***************************************************************************)
(* The user transaction processor with the flattening of signatures, and   *)
(* the account transactions processor, which uses it                       *)
(* (processors/user_transaction_processor.rs,                              *)
(* processors/account_transactions_processor.rs and their models).         *)
(*                                                                         *)
(* An account signature is [type, signatures, public_keys, indices]: the   *)
(* signatures, all the account's keys, and which key each signature is     *)
(* by.  A transaction signature is [type, sender, secondary_addresses,     *)
(* secondary]; most types have only a sender.                              *)
(***************************************************************************)
EXTENDS Parsing

SignatureRow(v, agent, n, primary, signer, type, public_key, signature) ==
    Row("signatures",
        [transaction_version |-> v, multi_agent_index |-> agent,
         multi_sig_index |-> n, is_sender_primary |-> primary], v,
        [signer |-> signer, type |-> type, public_key |-> public_key,
         signature |-> signature])

parse_ed25519_signature(s, v, primary, agent, signer) ==
    <<SignatureRow(v, agent, 0, primary, signer, "ed25519_signature",
                   s.public_keys[1], s.signatures[1])>>

\* Each signature is by the key its index names.
parse_multi_ed25519_signature(s, v, primary, agent, signer) ==
    [n \in DOMAIN s.signatures |->
        SignatureRow(v, agent, n - 1, primary, signer, "multi_ed25519_signature",
                     s.public_keys[s.indices[n] + 1], s.signatures[n])]

\* get_any_signature_type: a signature of a node before 1.10 has no variant.
get_any_signature_type(prefix, old_prefix, variant) ==
    IF variant.new THEN <<prefix, variant.type>> ELSE <<old_prefix, variant.type>>

parse_single_key_signature(s, v, primary, agent, signer) ==
    <<SignatureRow(v, agent, 0, primary, signer,
                   get_any_signature_type("single_sender", "single_key", s.variant),
                   s.public_keys[1], s.signatures[1])>>

\* The n-th signature is stored with the n-th key, whichever key made it.
parse_multi_key_signature(s, v, primary, agent, signer) ==
    [n \in DOMAIN s.signatures |->
        SignatureRow(v, agent, n - 1, primary, signer,
                     get_any_signature_type("multi_key", "multi_key", s.variant),
                     s.public_keys[n], s.signatures[n])]

parse_multi_agent_signature_helper(s, v, primary, agent, signer) ==
    CASE s.type = "ed25519" -> parse_ed25519_signature(s, v, primary, agent, signer)
      [] s.type = "multi_ed25519" ->
            parse_multi_ed25519_signature(s, v, primary, agent, signer)
      [] s.type = "single_key" ->
            parse_single_key_signature(s, v, primary, agent, signer)
      [] s.type = "multi_key" ->
            parse_multi_key_signature(s, v, primary, agent, signer)

\* parse_multi_agent_signature and parse_fee_payer_signature; the fee payer's
\* own signature is not stored.
parse_multi_agent_signature(s, v, sender) ==
    parse_multi_agent_signature_helper(s.sender, v, TRUE, 0, sender)
    \o Emit(s.secondary_addresses, LAMBDA i :
            parse_multi_agent_signature_helper(s.secondary[i], v, FALSE, i - 1,
                                               s.secondary_addresses[i]))

\* The other three types have the sender's signature alone.
from_user_transaction(s, v, sender) ==
    IF s.type \in {"multi_agent", "fee_payer"}
    THEN parse_multi_agent_signature(s, v, sender)
    ELSE parse_multi_agent_signature_helper(s.sender, v, TRUE, 0, sender)

\* "Empty vec if signature is None".
get_signatures(txn, v) ==
    IF txn.signature.type = None THEN <<>>
    ELSE from_user_transaction(txn.signature, v, txn.sender)

get_signature_type(s) ==
    IF s.type = "single_sender" THEN s.sender.type ELSE s.type

UserTransactionParse(acc, txn, v) ==
    IF txn.kind # "user" THEN acc
    ELSE Push(acc, <<Row("user_transactions", [version |-> v], v,
                         [sender |-> txn.sender,
                          signature_type |-> get_signature_type(txn.signature)])>>
                   \o get_signatures(txn, v))

-----------------------------------------------------------------------------
(* Account transactions *)

AccountRow(v, address) ==
    Row("account_transactions",
        [transaction_version |-> v, account_address |-> address], v, NoMap)

\* An object is recorded with its owner.
account_from_write_resource(c, v) ==
    <<AccountRow(v, c.address)>>
    \o Optional(c.type = ObjectCore, <<AccountRow(v, c.data.owner)>>)

AccountTransactionsParse(acc, txn, v) ==
    LET signers == IF txn.kind = "user" THEN get_signatures(txn, v) ELSE <<>>
        FromChange(i) ==
            LET c == txn.changes[i]
            IN  CASE c.change = "WriteResource" -> account_from_write_resource(c, v)
                  [] c.change = "DeleteResource" -> <<AccountRow(v, c.address)>>
                  [] OTHER -> <<>>
    IN  IF txn.kind \notin {"user", "genesis", "block_metadata"} THEN acc
        ELSE Push(acc, [n \in DOMAIN signers |-> AccountRow(v, signers[n].cols.signer)]
                       \o [n \in DOMAIN txn.events |->
                              AccountRow(v, txn.events[n].address)]
                       \o Emit(txn.changes, FromChange))
=============================================================================
