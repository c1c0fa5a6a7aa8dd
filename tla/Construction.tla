---------------------------- MODULE Construction ----------------------------
(***************************************************************************)
(* The Construction API (src/src/services/ConstructionService.js): a       *)
(* client turns the operations it wants on chain into a transaction, by    *)
(* calling /construction/preprocess, metadata, payloads, parse, combine,   *)
(* parse and submit, and carrying every answer to the next call.  The      *)
(* server keeps nothing between the calls, so each answer must still fit   *)
(* the operations the client started from.                                 *)
(*                                                                         *)
(* Abstractions: a coin identifier is a member of Coins, an address is its *)
(* account, a signature names the account whose key made it, the digest it *)
(* signs and the form its bytes have, and a digest is the record of what   *)
(* it commits to.  The hex and JSON encodings of the transaction are left  *)
(* out.                                                                    *)
(***************************************************************************)
EXTENDS Integers, Sequences, SequencesExt, FiniteSets, FiniteSetsExt

CONSTANTS
    Coins,      \* the unspent outputs of the chain
    NoCoin,     \* the coin of an OUTPUT operation, which names none
    Accounts,   \* the addresses
    Owner,      \* the account each coin belongs to
    Worth,      \* the satoshis of each coin
    Intents,    \* the lists of operations a client may ask for
    Forms       \* the forms in which wallets answer signatures: some of SignatureForms

Operations == [type : {"INPUT", "OUTPUT"}, account : Accounts, amount : Int,
               coin : Coins \union {NoCoin}]

\* "ecdsa": r and s, the 64 bytes of the signature_type that payloads asks for; "script":
\* the bytes of a scriptSig, which are DER with the sighash type behind.
SignatureForms == {"ecdsa", "script"}

ASSUME FormsAreKnown == Forms \subseteq SignatureForms
ASSUME CoinsHaveOwners == Owner \in [Coins -> Accounts] /\ Worth \in [Coins -> Nat]
ASSUME IntentsAreOperations ==
    /\ NoCoin \notin Coins
    /\ Intents \subseteq Seq(Operations)
    /\ \A s \in Intents : \A i \in DOMAIN s : s[i].type = "INPUT" <=> s[i].coin \in Coins

VARIABLES
    ops,        \* the operations the client wants
    stage,      \* the endpoint it calls next, or how the construction ended
    required,   \* required_balances, answered by preprocess: accounts and their coins
    inputs,     \* relevant_inputs, answered by metadata
    unsigned,   \* the unsigned transaction, with inputAddresses and inputAmounts
    payloads,   \* what payloads asks the client to sign
    signatures, \* the signatures of the wallet
    signed,     \* the signed transaction combine answered
    intent      \* the operations the last parse read from the transaction

vars == <<ops, stage, required, inputs, unsigned, payloads, signatures, signed, intent>>

Outcomes == {"refused", "accepted", "rejected"}
Stages == {"preprocess", "metadata", "payloads", "parseUnsigned", "sign", "combine",
           "parseSigned", "submit"} \union Outcomes

Abs(n) == IF n < 0 THEN -n ELSE n

\* the elements of s at the positions chosen, in their order; what it picks for every s is
\* proved in Construction_proofs
Pick(s, chosen) ==
    LET pick[n \in 0..Len(s)] == IF n = 0 THEN <<>>
                                 ELSE IF n \in chosen THEN Append(pick[n - 1], s[n])
                                 ELSE pick[n - 1]
    IN  pick[Len(s)]

Typed(s, type) == {i \in DOMAIN s : s[i].type = type}
Inputs(s) == Pick(s, Typed(s, "INPUT"))
Outputs(s) == Pick(s, Typed(s, "OUTPUT"))

Field(s, Of(_)) == [i \in DOMAIN s |-> Of(s[i])]
AccountsOf(s) == Field(s, LAMBDA op : op.account)
Amounts(s) == Field(s, LAMBDA op : op.amount)
CoinsOf(s) == Field(s, LAMBDA op : op.coin)

(***************************************************************************)
(* /construction/preprocess: the coins that are spent, grouped by account  *)
(* in the order in which the accounts first appear.  The amount summed for *)
(* each account is negative whenever there is one: only its sign is read.  *)
(***************************************************************************)
\* Mutant of Debits: an INPUT that does not debit its account is spent all the same.
DebitsOfAnySign(s) == Typed(s, "INPUT")

\* the operations that debit an account
Debits(s) == {i \in DOMAIN s : s[i].amount < 0}

\* the first debit of each account
FirstDebits(s) == {i \in Debits(s) : \A j \in Debits(s) : s[j].account = s[i].account => i <= j}

Payers(s) == AccountsOf(Pick(s, FirstDebits(s)))

DebitsOf(s, account) == {i \in Debits(s) : s[i].account = account}

\* Mutant of RequiredBalances: the coins of an account come in the opposite order.
RequiredBalancesReversed(s) ==
    [n \in DOMAIN Payers(s) |->
        [account |-> Payers(s)[n],
         coins |-> Reverse(CoinsOf(Pick(s, DebitsOf(s, Payers(s)[n]))))]]

RequiredBalances(s) ==
    [n \in DOMAIN Payers(s) |->
        [account |-> Payers(s)[n],
         coins |-> CoinsOf(Pick(s, DebitsOf(s, Payers(s)[n])))]]

HasInvalidOutput(s) == \E i \in DOMAIN s : s[i].type = "OUTPUT" /\ s[i].amount < 0

Refused ==
    /\ stage' = "refused"
    /\ UNCHANGED <<ops, required, inputs, unsigned, payloads, signatures, signed, intent>>

Preprocess ==
    /\ stage = "preprocess"
    /\ \/ HasInvalidOutput(ops) /\ Refused         \* Errors.INVALID_OUTPUT_OPERATION
       \/ /\ ~HasInvalidOutput(ops)
          /\ required' = RequiredBalances(ops)
          /\ stage' = "metadata"
          /\ UNCHANGED <<ops, inputs, unsigned, payloads, signatures, signed, intent>>

(***************************************************************************)
(* /construction/metadata: one relevant input per coin, account by account.*)
(***************************************************************************)
Metadata ==
    /\ stage = "metadata"
    /\ \/ required = <<>> /\ Refused               \* Errors.EXPECTED_REQUIRED_ACCOUNTS
       \/ /\ required # <<>>
          /\ inputs' = FlattenSeq(Field(required, LAMBDA balance : balance.coins))
          /\ stage' = "payloads"
          /\ UNCHANGED <<ops, required, unsigned, payloads, signatures, signed, intent>>

(***************************************************************************)
(* /construction/payloads.  The i-th INPUT operation lends its account and *)
(* its amount to the i-th relevant input; when there are more of the ones  *)
(* than of the others it ends in a TypeError, and when a coin is spent     *)
(* twice in an error of the builder.                                       *)
(***************************************************************************)
\* what a SIGHASH_ALL signature of input i commits to
Digest(i, coins, outs, account, amount) ==
    [index |-> i, inputs |-> coins, outputs |-> outs, account |-> account, amount |-> amount]

\* Mutant of PayloadOf: it is computed before the outputs were added.
PayloadOfEarly(i) ==
    LET op == Inputs(ops)[i]
    IN  [address |-> op.account,
         hash |-> Digest(i, SubSeq(inputs, 1, i), <<>>, op.account, Abs(op.amount))]

\* the payload of input i is computed as soon as input i was added: the
\* transaction does not have the later inputs yet
PayloadOf(i) ==
    LET op == Inputs(ops)[i]
    IN  [address |-> op.account,
         hash |-> Digest(i, SubSeq(inputs, 1, i), Outputs(ops), op.account, Abs(op.amount))]

\* Mutant of Unbuildable: an INPUT operation without a relevant input goes unnoticed.
UnbuildableUnlessTwice == \E i, j \in DOMAIN inputs : i # j /\ inputs[i] = inputs[j]

Unbuildable ==
    \/ inputs = <<>>                               \* Errors.EXPECTED_RELEVANT_INPUTS
    \/ Len(Inputs(ops)) # Len(inputs)
    \/ \E i, j \in DOMAIN inputs : i # j /\ inputs[i] = inputs[j]

BuildPayloads ==
    /\ unsigned' = [coins |-> inputs, outputs |-> Outputs(ops),
                    addresses |-> AccountsOf(Inputs(ops)), amounts |-> Amounts(Inputs(ops))]
    /\ payloads' = [i \in DOMAIN inputs |-> PayloadOf(i)]
    /\ stage' = "parseUnsigned"
    /\ UNCHANGED <<ops, required, inputs, signatures, signed, intent>>

Payloads ==
    /\ stage = "payloads"
    /\ \/ Unbuildable /\ Refused
       \/ ~Unbuildable /\ BuildPayloads

(***************************************************************************)
(* /construction/parse, before and after signing: the accounts of the      *)
(* inputs come from the blob, then from the public keys; the amounts from  *)
(* the blob; coins and outputs from the transaction.                       *)
(***************************************************************************)
Parsed(tx, account) ==
    [i \in DOMAIN tx.coins |-> [type |-> "INPUT", account |-> account[i],
                                amount |-> tx.amounts[i], coin |-> tx.coins[i]]]
    \o tx.outputs

ParseUnsigned ==
    /\ stage = "parseUnsigned"
    /\ intent' = Parsed(unsigned, unsigned.addresses)
    /\ stage' = "sign"
    /\ UNCHANGED <<ops, required, inputs, unsigned, payloads, signatures, signed>>

ParseSigned ==
    /\ stage = "parseSigned"
    /\ intent' = Parsed(signed, Field(signed.signatures, LAMBDA s : s.key))
    /\ stage' = "submit"
    /\ UNCHANGED <<ops, required, inputs, unsigned, payloads, signatures, signed>>

\* The wallet of the client signs every payload with the key of its address.
Sign ==
    /\ stage = "sign"
    /\ \E form \in Forms :
          signatures' = Field(payloads, LAMBDA p : [key |-> p.address, signs |-> p.hash,
                                                    form |-> form])
    /\ stage' = "combine"
    /\ UNCHANGED <<ops, required, inputs, unsigned, payloads, signed, intent>>

\* Every signature is what a scriptSig takes.
ForScripts == \A i \in DOMAIN signatures : signatures[i].form = "script"

\* The i-th signature goes to the i-th input, its bytes as they are.
PutSignatures ==
    /\ signed' = [coins |-> unsigned.coins, outputs |-> unsigned.outputs,
                  amounts |-> unsigned.amounts,
                  signatures |-> [i \in DOMAIN unsigned.coins |-> signatures[i]]]
    /\ stage' = "parseSigned"
    /\ UNCHANGED <<ops, required, inputs, unsigned, payloads, signatures, intent>>

\* /construction/combine. The library may refuse to build a scriptSig from a signature of
\* another form; where it does not, the node refuses it.
Combine ==
    /\ stage = "combine"
    /\ \/ ~ForScripts /\ Refused
       \/ PutSignatures

(***************************************************************************)
(* /construction/submit: rpc.sendRawTransaction, which the node accepts    *)
(* when every coin is spent once, the outputs are worth no more than the   *)
(* coins, and each signature is the owner's over the whole transaction, in *)
(* the form of a scriptSig.                                                *)
(***************************************************************************)
Total(s) ==
    LET sum[n \in 0..Len(s)] == IF n = 0 THEN 0 ELSE sum[n - 1] + s[n]
    IN  sum[Len(s)]

SignedByOwner(tx, i) ==
    LET c == tx.coins[i]
    IN  tx.signatures[i] = [key |-> Owner[c],
                            signs |-> Digest(i, tx.coins, tx.outputs, Owner[c], Worth[c]),
                            form |-> "script"]

NodeAccepts(tx) ==
    /\ tx.outputs # <<>>
    /\ Total(Amounts(tx.outputs)) <= Total(Field(tx.coins, LAMBDA c : Worth[c]))
    /\ \A i \in DOMAIN tx.coins : SignedByOwner(tx, i)

Submit ==
    /\ stage = "submit"
    /\ stage' = IF NodeAccepts(signed) THEN "accepted" ELSE "rejected"
    /\ UNCHANGED <<ops, required, inputs, unsigned, payloads, signatures, signed, intent>>

Init ==
    /\ ops \in Intents
    /\ stage = "preprocess"
    /\ required = <<>> /\ inputs = <<>> /\ payloads = <<>> /\ signatures = <<>> /\ intent = <<>>
    /\ unsigned = [coins |-> <<>>, outputs |-> <<>>, addresses |-> <<>>, amounts |-> <<>>]
    /\ signed = [coins |-> <<>>, outputs |-> <<>>, amounts |-> <<>>, signatures |-> <<>>]

Next == Preprocess \/ Metadata \/ Payloads \/ ParseUnsigned \/ Sign \/ Combine
        \/ ParseSigned \/ Submit

Spec == Init /\ [][Next]_vars

-----------------------------------------------------------------------------
(* Properties *)

\* The answers have their shapes; a transaction has an account, an amount and (once
\* signed) a signature for each of its coins.
TypeOK ==
    /\ ops \in Intents /\ stage \in Stages
    /\ \A n \in DOMAIN required :
          required[n].account \in Accounts /\ required[n].coins \in Seq(Coins)
    /\ inputs \in Seq(Coins)
    /\ DOMAIN unsigned.coins = DOMAIN unsigned.addresses
    /\ DOMAIN unsigned.coins = DOMAIN unsigned.amounts
    /\ DOMAIN unsigned.coins = DOMAIN payloads
    /\ DOMAIN signed.coins = DOMAIN signed.signatures

\* each account names its coins one after the other
Grouped(s) ==
    \A i, j, k \in Typed(s, "INPUT") :
        i < j /\ j < k /\ s[i].account = s[k].account => s[j].account = s[i].account

\* When no account's inputs are interrupted by another's, what parse reads from the
\* transaction, unsigned or signed, is what the client asked for: the same accounts spend
\* the same coins for the same amounts, and the outputs are the same, all in the same order
\* (ConstructionService.js:211-322; the pairing is made by constructionPayloads, from
\* lists that preprocess regrouped). Inputs of x, y and x again are paired wrongly.
IntentPreserved ==
    intent # <<>> /\ Grouped(ops) =>
        /\ Inputs(intent) = Inputs(ops)
        /\ Outputs(intent) = Outputs(ops)

\* Whatever pairing the endpoints made, a transaction the node accepts is the one that was
\* asked for: it spends the coins of the operations, each of which named the coin's owner
\* and debited its worth, and pays what was to be paid. A mix-up, or a sign the client got
\* wrong, is a refused call or a failed submit, never another payment.
SubmittedIsIntended ==
    stage = "accepted" =>
        /\ ToSet(signed.coins) = ToSet(CoinsOf(Inputs(ops)))
        /\ signed.outputs = Outputs(ops)
        /\ \A i \in DOMAIN ops :
              ops[i].type = "INPUT" => /\ ops[i].account = Owner[ops[i].coin]
                                       /\ ops[i].amount = -Worth[ops[i].coin]

\* operations that describe a transfer the chain allows, of coins that are worth something
Honest(s) ==
    /\ Inputs(s) # <<>> /\ Outputs(s) # <<>>
    /\ \A i \in DOMAIN s :
          IF s[i].type = "INPUT"
          THEN s[i].account = Owner[s[i].coin] /\ s[i].amount = -Worth[s[i].coin] /\ s[i].amount < 0
          ELSE s[i].amount > 0
    /\ Cardinality(ToSet(CoinsOf(Inputs(s)))) = Len(Inputs(s))
    /\ Total(Amounts(s)) <= 0

\* A transfer the chain allows is not turned away: every endpoint answers and the node
\* takes the signed transaction (constructionSubmit: "Submit a pre-signed transaction
\* to the node").
TransferSubmitted == Honest(ops) => stage \notin {"refused", "rejected"}

\* The same for transfers of a single coin, the only ones the workflow of the repository's
\* tests builds (test/workflows/construction.ros), by a wallet that answers its signature in
\* the form combine puts it into the scriptSig (ConstructionService.js:152-155).
SingleCoinSubmitted == Len(Inputs(ops)) = 1 /\ ForScripts => TransferSubmitted
=============================================================================
