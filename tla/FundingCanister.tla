--------------------------- MODULE FundingCanister ---------------------------
(***************************************************************************)
(* The ICP ledger and the deposit side of the Perun canister as the funder *)
(* uses them, for ONE channel.  Neither is part of the repository, so      *)
(* these operators are external: they say what channel/funder.go and       *)
(* channel/connector/services.go rely on, with the amounts that            *)
(* connector/funder_test.go expects.  As in PerunCanister, a handler maps  *)
(* the state before a call to the state after it.                          *)
(***************************************************************************)
EXTENDS Integers, Sequences

CONSTANTS
    Funders,   \* the participants of the channel, by index
    Amount,    \* Amount[p]: what the agreement asks p to deposit
    Fee        \* ICTransferFee

ASSUME FundingAssumption ==
    /\ Amount \in [Funders -> Nat]
    /\ Fee \in Nat \ {0}

(* balance   the participants' balances on the ICP ledger                  *)
(* blocks    the transfers to the Perun canister, by block number; the     *)
(*           memo of a transfer names the channel and the participant      *)
(* notified  the blocks that the canister has been told of                 *)
(* credit    what they brought in and deposit has not moved yet            *)
(* holdings  what the participants hold in the channel                     *)
(* log       the Funded events; total is the participant's new holdings    *)
Banks == [balance  : [Funders -> Nat],
          blocks   : Seq([from : Funders, amount : Nat]),
          notified : SUBSET Nat,
          credit   : [Funders -> Nat],
          holdings : [Funders -> Nat],
          log      : Seq([who : Funders, total : Nat])]

Nothing == [p \in Funders |-> 0]

OpenBank(balance) ==
    [balance |-> balance, blocks |-> <<>>, notified |-> {},
     credit |-> Nothing, holdings |-> Nothing, log |-> <<>>]

(* The amount includes the fee of a later withdrawal; the ledger takes the *)
(* fee of this transfer on top of it.                                      *)
Transferred(p) == Amount[p] + Fee

CanTransfer(b, p) == b.balance[p] >= Transferred(p) + Fee

OnTransfer(b, p) ==
    [b EXCEPT !.balance[p] = @ - Transferred(p) - Fee,
              !.blocks = Append(@, [from |-> p, amount |-> Transferred(p)])]

(* transaction_notification: credits a block to the participant its memo   *)
(* names, once.                                                            *)
OnNotify(b, n) ==
    IF n \in DOMAIN b.blocks \ b.notified
    THEN [b EXCEPT !.notified = @ \cup {n},
                   !.credit[b.blocks[n].from] = @ + b.blocks[n].amount]
    ELSE b

(* deposit: moves the credit into the channel.                             *)
OnDeposit(b, p) ==
    IF b.credit[p] > 0
    THEN [b EXCEPT !.credit[p] = 0,
                   !.holdings[p] = @ + b.credit[p],
                   !.log = Append(@, [who |-> p, total |-> b.holdings[p] + b.credit[p]])]
    ELSE b
=============================================================================
