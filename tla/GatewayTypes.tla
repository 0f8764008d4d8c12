----------------------------- MODULE GatewayTypes -----------------------------
(***************************************************************************)
(* Values the gateway's parts exchange: slots, and Ethereum addresses as   *)
(* the gateway handles them: strings.  The same 20 bytes can be written in *)
(* several ways, and the code compares addresses sometimes byte by byte    *)
(* and sometimes after normalize_address.  An address is therefore the     *)
(* pair of the account it denotes and the way it is written; string        *)
(* equality is equality of the pair.                                       *)
(***************************************************************************)
EXTENDS Naturals

CONSTANTS
    Slots,      \* the beacon slots the model talks about
    Accounts,   \* the accounts (20-byte values) the model talks about
    Proposers   \* validator BLS public keys

ASSUME SlotsAssumption == Slots \subseteq Nat

\* "lower" and "mixed": 0x-prefixed hex, all lower case or with upper-case
\* digits; "upperX": prefixed 0X; "bare": forty hex digits and no prefix.
Forms == {"lower", "mixed", "upperX", "bare"}

Address == [account : Accounts, form : Forms]

\* Strips 0x or 0X and lowers the case: only the account is left.
normalize_address(a) == a.account

\* parse_ethereum_address goes through parse_hex_bytes, which strips "0x" but
\* not "0X"; hex::decode then fails on the X.
parse_ethereum_address_ok(a) == a.form # "upperX"

\* The CHECK on commitments.slasher and on delegations.committer_address.
chk_address_format(a) == a.form \in {"lower", "mixed"}
=============================================================================
