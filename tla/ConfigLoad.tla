----------------------------- MODULE ConfigLoad -----------------------------
(***************************************************************************)
(* What copycat-trader makes of its configuration file (src/config.rs):    *)
(* ${VAR} is replaced from the environment, the wallets are validated, and *)
(* the addresses the stream subscribes to (src/geyser.rs) are looked up    *)
(* again for every transaction.  Parsing TOML is left out.                 *)
(*                                                                         *)
(* A text is a sequence of tokens: OPEN stands for the two characters      *)
(* before a name, CLOSE for the one after it.                              *)
(***************************************************************************)
EXTENDS Integers, Sequences, FiniteSetsExt

CONSTANTS
  OPEN, CLOSE,
  Environment,      \* the variables that are set: name -> text
  NotANumber        \* TOML has a nan

ASSUME TokensDiffer == OPEN # CLOSE
\* The values are texts.
ASSUME EnvironmentAssumption ==
  \A name \in DOMAIN Environment :
    LET value == Environment[name] IN value \in Seq({value[i] : i \in DOMAIN value})

-----------------------------------------------------------------------------
(* expand_env.                                                             *)

Unterminated == [ok |-> FALSE, text |-> <<>>]

\* std::env::var(name).unwrap_or_default()
EnvVar(name) == IF name \in DOMAIN Environment THEN Environment[name] ELSE <<>>

Positions(text, token, from) == {i \in from..Len(text) : text[i] = token}

\* Mutant: rfind('}'): the name reaches to the last CLOSE.
ExpandEnvToLast(text) ==
  LET open == Positions(text, OPEN, 1) IN
  IF open = {} THEN [ok |-> TRUE, text |-> text]
  ELSE LET close == Positions(text, CLOSE, Min(open) + 1) IN
       IF close = {} THEN Unterminated
       ELSE LET tail == SubSeq(text, Max(close) + 1, Len(text))
                name == SubSeq(text, Min(open) + 1, Max(close) - 1)
            IN [ok |-> TRUE, text |-> SubSeq(text, 1, Min(open) - 1) \o EnvVar(name) \o tail]

\* One turn of the loop at position i: up to the next OPEN the text is copied,
\* the name reaches to the first CLOSE, and the value is not looked at again.
\* rest is what later turns make of the text from a later position on.
Turn(text, rest, i) ==
  LET open == Positions(text, OPEN, i) IN
  IF open = {} THEN [ok |-> TRUE, text |-> SubSeq(text, i, Len(text))]
  ELSE LET close == Positions(text, CLOSE, Min(open) + 1) IN
       IF close = {} THEN Unterminated
       ELSE LET name == SubSeq(text, Min(open) + 1, Min(close) - 1)
                tail == rest[Min(close) + 1]
            IN [ok |-> tail.ok,
                text |-> SubSeq(text, i, Min(open) - 1) \o EnvVar(name) \o tail.text]

ExpandEnv(text) ==
  LET rest[i \in 1..Len(text) + 1] == Turn(text, rest, i) IN rest[1]

-----------------------------------------------------------------------------
(* The wallets.                                                            *)

\* A sizing_value that is not a number is not <= 0.
Valid(w) == w.valid_address /\ (w.sizing_value = NotANumber \/ w.sizing_value > 0)

Validate(wallets) == wallets # <<>> /\ \A i \in DOMAIN wallets : Valid(wallets[i])

\* Mutant: the first entry with the address decides, enabled or not.
WalletByFirstAddress(wallets, address) ==
  LET found == {i \in DOMAIN wallets : wallets[i].address = address} IN
  IF found = {} \/ ~wallets[Min(found)].enabled THEN 0 ELSE Min(found)

\* wallet_by_address: the index of the entry, or 0.
WalletByAddress(wallets, address) ==
  LET found == {i \in DOMAIN wallets : wallets[i].address = address /\ wallets[i].enabled}
  IN IF found = {} THEN 0 ELSE Min(found)

\* build_request: the accounts the stream is subscribed to.
Subscribed(wallets) ==
  {wallets[i].address : i \in {i \in DOMAIN wallets : wallets[i].enabled}}

-----------------------------------------------------------------------------
(* Properties, for one input at a time.                                    *)

\* One scan from left to right, a token at a time, is the reference: outside a
\* name tokens are copied, inside they are collected until the first CLOSE.
Read(s, token) ==
  CASE ~s.inside /\ token = OPEN -> [s EXCEPT !.inside = TRUE, !.name = <<>>]
    [] s.inside /\ token = CLOSE -> [s EXCEPT !.inside = FALSE, !.out = @ \o EnvVar(s.name)]
    [] s.inside /\ token # CLOSE -> [s EXCEPT !.name = Append(@, token)]
    [] OTHER -> [s EXCEPT !.out = Append(@, token)]

Scanned(text) ==
  LET scan[i \in 0..Len(text)] ==
        IF i = 0 THEN [inside |-> FALSE, name |-> <<>>, out |-> <<>>]
        ELSE Read(scan[i - 1], text[i])
  IN scan[Len(text)]

\* expand_env (config.rs:170-188) agrees with the scan, and fails exactly when
\* a name is not closed.
ExpandedLikeScan(text) ==
  /\ ExpandEnv(text).ok <=> ~Scanned(text).inside
  /\ ExpandEnv(text).ok => ExpandEnv(text).text = Scanned(text).out

\* The stream brings the transactions of exactly the addresses that have an
\* entry when handle_tx looks them up, also when an address is listed twice,
\* and the entry it finds is valid (config.rs:149-167, geyser.rs:127-138).
DispatchMatches(wallets, addresses) ==
  Validate(wallets) =>
    \A a \in addresses :
      LET i == WalletByAddress(wallets, a) IN
      /\ a \in Subscribed(wallets) <=> i # 0
      /\ i # 0 => wallets[i].enabled /\ wallets[i].address = a /\ Valid(wallets[i])

=============================================================================
