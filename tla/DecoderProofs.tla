---------------------------- MODULE DecoderProofs ----------------------------
(***************************************************************************)
(* What decode_transaction makes of a transaction, for every wallet, every *)
(* list of instructions and every amount.                                  *)
(*                                                                         *)
(* The first part is about the decoders and any frame.  The second states  *)
(* the invariant of a transaction being built and decoded (TxInv), and     *)
(* derives the properties of TargetTx from it.  PureProofs shows that the  *)
(* invariant holds.                                                        *)
(***************************************************************************)
EXTENDS TargetTx, FiniteSetTheorems, SequenceTheorems, WellFoundedInduction, TLAPS

\* The smallest member of a set of numbers: the first instruction that settles
\* a transaction, the first entry of a wallet.
LEMMA MinExists ==
  ASSUME NEW S \in SUBSET Nat, S # {}
  PROVE  Min(S) \in S /\ \A n \in S : Min(S) <= n
<1> DEFINE R == OpToRel(<, Nat)
<1>1. PICK x \in S : \A y \in S : ~ (<<y, x>> \in R)
  <2>1. IsWellFoundedOn(R, Nat)
    BY NatLessThanWellFounded
  <2> HIDE DEF R
  <2> QED BY <2>1, WFMin
<1>2. \A a, b \in Nat : <<a, b>> \in R <=> a < b
  BY DEF OpToRel
<1> HIDE DEF R
<1>3. \A y \in S : x <= y
  <2> TAKE y \in S
  <2>1. x \in Nat /\ y \in Nat /\ ~(y < x)
    BY <1>1, <1>2
  <2> QED BY <2>1
<1> QED BY <1>3 DEF Min

\* A wallet without an account of a mint holds none of it.
LEMMA SumOfNone == MapThenSumSet(Amount, {}) = 0
<1> DEFINE pick(s) == CHOOSE x \in s : TRUE
           g == [s \in SUBSET {} |-> 0]
<1>1. \E iter : iter = [s \in SUBSET {} |->
                IF s = {} THEN 0 ELSE Amount(pick(s)) + iter[s \ {pick(s)}]]
  <2>1. g = [s \in SUBSET {} |->
                IF s = {} THEN 0 ELSE Amount(pick(s)) + g[s \ {pick(s)}]]
    <3>1. \A s \in SUBSET {} : s = {}
      OBVIOUS
    <3> QED BY <3>1
  <2> QED BY <2>1
<1> QED BY <1>1 DEF MapThenSumSet, MapThenFoldSet

\* A wallet with one account of a mint holds what is in it.
LEMMA SumOfOne ==
  ASSUME NEW b
  PROVE  MapThenSumSet(Amount, {b}) = b.amount + 0
<1> DEFINE pick(s) == CHOOSE x \in s : TRUE
           g == [s \in SUBSET {b} |-> IF s = {} THEN 0 ELSE Amount(b) + 0]
<1>1. \E iter : iter = [s \in SUBSET {b} |->
                IF s = {} THEN 0 ELSE Amount(pick(s)) + iter[s \ {pick(s)}]]
  <2>1. g = [s \in SUBSET {b} |->
                IF s = {} THEN 0 ELSE Amount(pick(s)) + g[s \ {pick(s)}]]
    <3>1. \A s \in SUBSET {b} : s = {} \/ (s = {b} /\ pick(s) = b /\ s \ {pick(s)} = {})
      OBVIOUS
    <3> QED BY <3>1
  <2> QED BY <2>1
<1> DEFINE I == CHOOSE iter : iter = [s \in SUBSET {b} |->
                IF s = {} THEN 0 ELSE Amount(pick(s)) + iter[s \ {pick(s)}]]
<1>2. I = [s \in SUBSET {b} |-> IF s = {} THEN 0 ELSE Amount(pick(s)) + I[s \ {pick(s)}]]
  BY <1>1
<1>3. MapThenSumSet(Amount, {b}) = I[{b}]
  BY DEF MapThenSumSet, MapThenFoldSet
<1> HIDE DEF I
<1>4. pick({b}) = b /\ {b} \ {b} = {} /\ I[{}] = 0
  BY <1>2
<1> HIDE DEF pick
<1>5. I[{b}] = Amount(b) + I[{}]
  BY <1>2, <1>4
<1> QED BY <1>3, <1>4, <1>5 DEF Amount

-----------------------------------------------------------------------------
(* The decoders, for any frame.                                            *)

Falling(ctx) == {m \in Mint : NetDelta(ctx, m) < -Dust}
Rising(ctx) == {m \in Mint : NetDelta(ctx, m) > Dust}

\* The two legs an answer reports.
Legs(d, in, a, out, b) ==
  /\ d.kind = "swap" /\ d.direction = Classify(in, out)
  /\ d.input_mint = in /\ d.input_amount = a
  /\ d.output_mint = out /\ d.output_amount = b

\* The fields of a reported swap.
LEMMA SwapLegs ==
  ASSUME NEW dex, NEW in, NEW a, NEW out, NEW b, NEW direction
  PROVE  LET d == Swap(dex, direction, in, a, out, b) IN
         /\ d.kind = "swap" /\ d.direction = direction
         /\ d.input_mint = in /\ d.input_amount = a
         /\ d.output_mint = out /\ d.output_amount = b
         /\ d # NoSwap /\ d # Failed
<1> DEFINE d == Swap(dex, direction, in, a, out, b)
<1>1. d.kind = "swap"
  BY DEF Swap
<1>2. d # NoSwap /\ d # Failed
  BY <1>1 DEF NoSwap, Failed
<1> QED BY <1>2 DEF Swap

\* There are finitely many mints.
LEMMA MintIsFinite == IsFiniteSet(Mint)
<1>1. IsFiniteSet(Quotes)
  <2>1. IsFiniteSet({} \union {"WSOL"})
    BY FS_EmptySet, FS_AddElement
  <2>2. IsFiniteSet(({} \union {"WSOL"}) \union {"USDC"})
    BY <2>1, FS_AddElement
  <2>3. IsFiniteSet((({} \union {"WSOL"}) \union {"USDC"}) \union {"USDT"})
    BY <2>2, FS_AddElement
  <2>4. Quotes = (({} \union {"WSOL"}) \union {"USDC"}) \union {"USDT"}
    BY DEF Quotes
  <2> QED BY <2>3, <2>4
<1> QED BY <1>1, TokensAssumption, FS_Union DEF Mint

\* A set of mints with one element is {m} for some m.
LEMMA OneMint ==
  ASSUME NEW S \in SUBSET Mint
  PROVE  Cardinality(S) = 1 <=> \E m \in Mint : S = {m}
<1>1. IsFiniteSet(S)
  BY MintIsFinite, FS_Subset
<1> QED BY <1>1, FS_Singleton

ReadFromDeltas(ctx, d) ==
  \E in, out \in Mint :
    /\ Falling(ctx) = {in} /\ Rising(ctx) = {out}
    /\ Legs(d, in, -NetDelta(ctx, in), out, NetDelta(ctx, out))

\* infer_from_balance_deltas answers exactly when one mint fell and one rose,
\* and then with these two (decoder/mod.rs); decode_jupiter only relabels it.
LEMMA InferAnswers ==
  ASSUME NEW ctx
  PROVE  LET d == InferFromBalanceDeltas(ctx) IN
         /\ d = NoSwap \/ ReadFromDeltas(ctx, d)
         /\ (\E in, out \in Mint : Falling(ctx) = {in} /\ Rising(ctx) = {out})
              => d # NoSwap
         /\ d # NoSwap => ReadFromDeltas(ctx, [d EXCEPT !.dex = "Jupiter"])
         /\ d # NoSwap => [d EXCEPT !.dex = "Jupiter"].kind = "swap"
<1> DEFINE F == Falling(ctx)
           R == Rising(ctx)
           in == CHOOSE m \in F : TRUE
           out == CHOOSE m \in R : TRUE
           d == InferFromBalanceDeltas(ctx)
<1>1. (Cardinality(F) = 1 <=> \E m \in Mint : F = {m})
      /\ (Cardinality(R) = 1 <=> \E m \in Mint : R = {m})
  BY OneMint DEF Falling, Rising
<1>2. d = IF Cardinality(F) # 1 \/ Cardinality(R) # 1 THEN NoSwap
          ELSE Swap("Unknown", Classify(in, out), in, -NetDelta(ctx, in),
                    out, NetDelta(ctx, out))
  BY DEF InferFromBalanceDeltas, Falling, Rising
<1>3. CASE Cardinality(F) = 1 /\ Cardinality(R) = 1
  <2>1. in \in Mint /\ F = {in} /\ out \in Mint /\ R = {out}
    BY <1>1, <1>3
  <2> HIDE DEF F, R, in, out
  <2>2. d = Swap("Unknown", Classify(in, out), in, -NetDelta(ctx, in),
                 out, NetDelta(ctx, out))
    BY <1>2, <1>3
  <2>3. Legs(d, in, -NetDelta(ctx, in), out, NetDelta(ctx, out)) /\ d # NoSwap
    BY <2>2, SwapLegs DEF Legs
  <2>4. Legs([d EXCEPT !.dex = "Jupiter"], in, -NetDelta(ctx, in), out, NetDelta(ctx, out))
    BY <2>2 DEF Legs, Swap
  <2>5. F = Falling(ctx) /\ R = Rising(ctx)
    BY DEF F, R
  <2> QED BY <2>1, <2>3, <2>4, <2>5 DEF ReadFromDeltas, Legs
<1>4. CASE ~(Cardinality(F) = 1 /\ Cardinality(R) = 1)
  <2>1. d = NoSwap
    BY <1>2, <1>4
  <2> QED BY <1>1, <1>4, <2>1
<1> QED BY <1>3, <1>4

\* The answer of build_swap, if there is one.
Built(ctx, in, out, d) ==
  LET in_delta == SignerTokenDelta(ctx, in)
      a == IF in_delta >= 0 /\ in = "WSOL" THEN -SolDelta(ctx) ELSE -in_delta
      b == SignerTokenDelta(ctx, out)
  IN a > 0 /\ b > 0 /\ Legs(d, in, a, out, b)

\* What build_swap answers has two positive legs: the change of the output
\* account, and that of the input account or of native SOL (decoder/raydium.rs).
LEMMA BuildSwapAnswers ==
  ASSUME NEW ctx, NEW dex, NEW in, NEW out,
         SolDelta(ctx) \in Int, SignerTokenDelta(ctx, in) \in Int,
         SignerTokenDelta(ctx, out) \in Int
  PROVE  LET d == BuildSwap(ctx, dex, in, out) IN d = NoSwap \/ Built(ctx, in, out, d)
<1> DEFINE in_delta == SignerTokenDelta(ctx, in)
           a == IF in_delta >= 0 /\ in = "WSOL" THEN -SolDelta(ctx) ELSE -in_delta
           b == SignerTokenDelta(ctx, out)
           d == BuildSwap(ctx, dex, in, out)
<1>1. d = IF a <= 0 \/ b <= 0 THEN NoSwap ELSE Swap(dex, Classify(in, out), in, a, out, b)
  BY DEF BuildSwap
<1>2. a \in Int /\ b \in Int
  OBVIOUS
<1>3. Built(ctx, in, out, d) <=> a > 0 /\ b > 0 /\ Legs(d, in, a, out, b)
  BY DEF Built
<1> HIDE DEF a, b, d
<1>4. ASSUME d # NoSwap PROVE a > 0 /\ b > 0 /\ Legs(d, in, a, out, b)
  <2>1. a > 0 /\ b > 0 /\ d = Swap(dex, Classify(in, out), in, a, out, b)
    BY <1>1, <1>2, <1>4
  <2> QED BY <2>1, SwapLegs DEF Legs
<1> QED BY <1>3, <1>4 DEF d

-----------------------------------------------------------------------------
(* The decoders, for the instructions of a transaction.                    *)

\* A call of a program without a known instruction is passed over, unless it
\* is Jupiter's: then the balances are looked at.
LEMMA PlainAnswers ==
  ASSUME NEW ctx, NEW p, NEW ix, ix = Plain(p)
  PROVE  /\ ~ix.is_inner /\ ix.program = p
         /\ \/ DecodeInstruction(ctx, ix) = NoSwap
            \/ /\ p \in {"JUPITER_V6", "JUPITER_V4"}
               /\ ReadFromDeltas(ctx, DecodeInstruction(ctx, ix))
<1> DEFINE d == DecodeInstruction(ctx, ix)
<1>1. ix.program = p /\ ix.op = "other" /\ ~ix.is_inner
  BY DEF Plain, Instruction
<1>2. /\ DecodeAmm(ctx, ix) = NoSwap /\ DecodeClmm(ctx, ix) = NoSwap
      /\ DecodeOrca(ctx, ix) = NoSwap /\ DecodeMeteora(ctx, ix) = NoSwap
      /\ DecodePumpFun(ctx, ix) = NoSwap
  BY <1>1 DEF DecodeAmm, DecodeClmm, DecodeOrca, DecodeMeteora, DecodePumpFun, FromAccounts
<1>3. CASE p \in {"JUPITER_V6", "JUPITER_V4"}
  <2>1. d = DecodeJupiter(ctx, ix)
    BY <1>1, <1>3 DEF DecodeInstruction
  <2>2. d = NoSwap \/ ReadFromDeltas(ctx, d)
    BY <1>1, <2>1, InferAnswers DEF DecodeJupiter
  <2> QED BY <1>1, <1>3, <2>2
<1>4. CASE p \notin {"JUPITER_V6", "JUPITER_V4"}
  <2>1. d = NoSwap
    BY <1>1, <1>2, <1>4 DEF DecodeInstruction
  <2> QED BY <1>1, <2>1
<1> QED BY <1>3, <1>4

\* The fields of a Pump.fun instruction.
LEMMA CurveFields ==
  ASSUME NEW op \in {"buy", "sell"}, NEW m, NEW ix, ix = CurveInstruction(op, m)
  PROVE  /\ ix.program = "PUMPFUN" /\ ix.op = op /\ ~ix.is_inner
         /\ 2 \in DOMAIN ix.accounts /\ ix.accounts[2] = m
<1> DEFINE list == [p \in 0..6 |-> IF p = 2 THEN m ELSE "KEY"]
<1>1. ix = Instruction("PUMPFUN", op, list, FALSE, FALSE)
  BY DEF CurveInstruction
<1>2. 2 \in DOMAIN list /\ list[2] = m
  OBVIOUS
<1> HIDE DEF list
<1>3. ix.program = "PUMPFUN" /\ ix.op = op /\ ~ix.is_inner /\ ix.accounts = list
  BY <1>1 DEF Instruction
<1> QED BY <1>2, <1>3

\* decode_pumpfun answers when SOL and the token moved in opposite directions,
\* the ones the instruction is for.
LEMMA CurveAnswers ==
  ASSUME NEW ctx, NEW m, NEW tok, NEW sol, tok = SignerTokenDelta(ctx, m), sol = SolDelta(ctx)
  PROVE  /\ DecodeInstruction(ctx, CurveInstruction("buy", m))
               = IF sol < 0 /\ tok > 0
                 THEN Swap("PumpFun", "Buy", "WSOL", -sol, m, tok) ELSE NoSwap
         /\ DecodeInstruction(ctx, CurveInstruction("sell", m))
               = IF sol > 0 /\ tok < 0
                 THEN Swap("PumpFun", "Sell", m, -tok, "WSOL", sol) ELSE NoSwap
<1>1. ASSUME NEW op \in {"buy", "sell"}, NEW ix, ix = CurveInstruction(op, m)
      PROVE  DecodeInstruction(ctx, ix)
               = CASE op = "buy" /\ sol < 0 /\ tok > 0 ->
                        Swap("PumpFun", "Buy", "WSOL", -sol, m, tok)
                   [] op = "sell" /\ sol > 0 /\ tok < 0 ->
                        Swap("PumpFun", "Sell", m, -tok, "WSOL", sol)
                   [] OTHER -> NoSwap
  <2>1. /\ ix.program = "PUMPFUN" /\ ix.op = op
        /\ 2 \in DOMAIN ix.accounts /\ ix.accounts[2] = m
    BY <1>1, CurveFields
  <2>2. DecodeInstruction(ctx, ix) = DecodePumpFun(ctx, ix)
    BY <2>1 DEF DecodeInstruction
  <2> QED BY <2>1, <2>2 DEF DecodePumpFun
<1>2. DecodeInstruction(ctx, CurveInstruction("buy", m))
        = IF sol < 0 /\ tok > 0 THEN Swap("PumpFun", "Buy", "WSOL", -sol, m, tok) ELSE NoSwap
  BY <1>1
<1>3. DecodeInstruction(ctx, CurveInstruction("sell", m))
        = IF sol > 0 /\ tok < 0 THEN Swap("PumpFun", "Sell", m, -tok, "WSOL", sol) ELSE NoSwap
  BY <1>1
<1> QED BY <1>2, <1>3

\* What the lemmas on pools need to know of a frame.
Sane(ctx) ==
  /\ SolDelta(ctx) \in Int
  /\ \A m \in Mint : SignerTokenDelta(ctx, m) \in Int /\ MintsOf(ctx, m) \subseteq {m}
  /\ MintsOf(ctx, "KEY") = {}

\* An account list names the two sides of the trade, and nothing else that is a
\* token account of the wallet.
LEMMA FormFields ==
  ASSUME NEW form, NEW in, NEW out, NEW is_inner, NEW ix,
         ix = FormInstruction(form, in, out, is_inner)
  PROVE  /\ ix.program = form.program
         /\ \A p, q \in DOMAIN ix.accounts :
              p # q => \/ "KEY" \in {ix.accounts[p], ix.accounts[q]}
                       \/ ix.accounts[p] = in /\ ix.accounts[q] = out
                       \/ ix.accounts[p] = out /\ ix.accounts[q] = in
<1> DEFINE list == [p \in form.positions |->
                      CASE p = form.from -> in [] p = form.to -> out [] OTHER -> "KEY"]
<1>1. ix = Instruction(form.program, form.op, list, form.a_to_b, is_inner)
  BY DEF FormInstruction
<1>2. \A p \in form.positions :
        /\ p # form.from /\ p # form.to => list[p] = "KEY"
        /\ p = form.from /\ p # form.to => list[p] = in
        /\ p = form.to /\ p # form.from => list[p] = out
        /\ list[p] \in {in, out, "KEY"}
  OBVIOUS
<1>3. DOMAIN list = form.positions
  OBVIOUS
<1> HIDE DEF list
<1>4. ix.program = form.program /\ ix.accounts = list
  BY <1>1 DEF Instruction
<1>5. \A p, q \in form.positions :
        p # q => \/ "KEY" \in {list[p], list[q]}
                 \/ list[p] = in /\ list[q] = out
                 \/ list[p] = out /\ list[q] = in
  BY <1>2
<1> QED BY <1>3, <1>4, <1>5

\* Wherever a pool decoder looks, it reads the two sides of the trade, in one
\* order or the other, or none.
LEMMA AccountsAnswer ==
  ASSUME NEW ctx, Sane(ctx), NEW in \in Mint, NEW out \in Mint, NEW form, NEW is_inner,
         NEW ix, ix = FormInstruction(form, in, out, is_inner),
         NEW dex, NEW ops, NEW p, NEW q, p # q
  PROVE  LET d == FromAccounts(ctx, ix, dex, ops, p, q) IN
         d \in {NoSwap, Failed} \/ Built(ctx, in, out, d) \/ Built(ctx, out, in, d)
<1> DEFINE d == FromAccounts(ctx, ix, dex, ops, p, q)
           from == MintsOf(ctx, ix.accounts[p])
           to == MintsOf(ctx, ix.accounts[q])
<1>1. \/ d \in {NoSwap, Failed}
      \/ /\ {p, q} \subseteq DOMAIN ix.accounts /\ from # {} /\ to # {}
         /\ d = BuildSwap(ctx, dex, CHOOSE m \in from : TRUE, CHOOSE m \in to : TRUE)
  BY DEF FromAccounts
<1> HIDE DEF d
<1>2. ASSUME {p, q} \subseteq DOMAIN ix.accounts, from # {}, to # {},
             d = BuildSwap(ctx, dex, CHOOSE m \in from : TRUE, CHOOSE m \in to : TRUE)
      PROVE  d = NoSwap \/ Built(ctx, in, out, d) \/ Built(ctx, out, in, d)
  <2>1. "KEY" \notin {ix.accounts[p], ix.accounts[q]}
    BY <1>2 DEF Sane
  <2>2. \/ ix.accounts[p] = in /\ ix.accounts[q] = out
        \/ ix.accounts[p] = out /\ ix.accounts[q] = in
    BY <1>2, <2>1, FormFields
  <2>3. CASE ix.accounts[p] = in /\ ix.accounts[q] = out
    <3>1. from = {in} /\ to = {out}
      BY <1>2, <2>3 DEF Sane
    <3>2. d = BuildSwap(ctx, dex, in, out)
      BY <1>2, <3>1
    <3> QED BY <3>2, BuildSwapAnswers DEF Sane
  <2>4. CASE ix.accounts[p] = out /\ ix.accounts[q] = in
    <3>1. from = {out} /\ to = {in}
      BY <1>2, <2>4 DEF Sane
    <3>2. d = BuildSwap(ctx, dex, out, in)
      BY <1>2, <3>1
    <3> QED BY <3>2, BuildSwapAnswers DEF Sane
  <2> QED BY <2>2, <2>3, <2>4
<1> QED BY <1>1, <1>2 DEF d

\* The same for each pool program: whatever layout an instruction has, no third
\* mint is ever read.
LEMMA PoolAnswers ==
  ASSUME NEW ctx, Sane(ctx), NEW in \in Mint, NEW out \in Mint, NEW form, NEW is_inner,
         NEW ix, ix = FormInstruction(form, in, out, is_inner), form.program \in PoolPrograms
  PROVE  LET d == DecodeInstruction(ctx, ix) IN
         d \in {NoSwap, Failed} \/ Built(ctx, in, out, d) \/ Built(ctx, out, in, d)
<1> DEFINE ok(x) == x \in {NoSwap, Failed} \/ Built(ctx, in, out, x) \/ Built(ctx, out, in, x)
<1>1. ix.program \in PoolPrograms
  BY FormFields
<1>2. ok(DecodeAmm(ctx, ix))
  BY AccountsAnswer DEF DecodeAmm
<1>3. ok(DecodeClmm(ctx, ix))
  BY AccountsAnswer DEF DecodeClmm
<1>4. ok(DecodeMeteora(ctx, ix))
  BY AccountsAnswer DEF DecodeMeteora
<1>5. ok(DecodeOrca(ctx, ix))
  <2> DEFINE a == IF ix.op = "swap" THEN 3 ELSE 4
             b == IF ix.op = "swap" THEN 5 ELSE 6
             p == IF ix.a_to_b THEN a ELSE b
             q == IF ix.a_to_b THEN b ELSE a
  <2>1. p # q
    OBVIOUS
  <2>2. DecodeOrca(ctx, ix)
          = FromAccounts(ctx, ix, "OrcaWhirlpool", {"swap", "swap_v2"}, p, q)
    BY DEF DecodeOrca
  <2> HIDE DEF p, q
  <2> QED BY <2>1, <2>2, AccountsAnswer
<1>6. DecodeInstruction(ctx, ix)
        \in {DecodeAmm(ctx, ix), DecodeClmm(ctx, ix),
             DecodeOrca(ctx, ix), DecodeMeteora(ctx, ix)}
  BY <1>1 DEF DecodeInstruction, PoolPrograms
<1> HIDE DEF ok
<1>7. ok(DecodeInstruction(ctx, ix))
  BY <1>2, <1>3, <1>4, <1>5, <1>6
<1> QED BY <1>7 DEF ok

-----------------------------------------------------------------------------
(* The invariant.                                                          *)

Account == {Absent} \union Nat
Via == PoolPrograms \union Routers \union {"PUMPFUN"}
TradeSet == [in : Mint, spent : Nat \ {0}, out : Mint, got : Nat \ {0}, via : Via]
Moved == [fees : Nat, deposits : Int, wrapped : Nat, unwrapped : Nat]

\* The instructions a transaction may hold.
Possible ==
  {Plain(p) : p \in {"SYSTEM", "TOKEN"} \union Claimable \union Routers}
  \union {FormInstruction(form, in, out, is_inner) :
            form \in Forms \union Routed, in \in Mint, out \in Mint, is_inner \in BOOLEAN}
  \union {CurveInstruction(op, m) : op \in {"buy", "sell"}, m \in Mint}

WalletTyped ==
  /\ start \in [lamports : Nat, tokens : [Mint -> Account]]
  /\ lamports \in Nat /\ tokens \in [Mint -> Account] /\ vaults \in [Mint -> Nat]
  /\ one_sided \in BOOLEAN /\ moved \in Moved

ListsTyped ==
  /\ outer \in Seq(Possible) /\ inner \in Seq(Possible)
  /\ Len(outer) + Len(inner) <= MaxInstructions + 1
  /\ swaps \in Seq(TradeSet) /\ Len(swaps) <= MaxSwaps

TypesInv ==
  phase \in {"building", "decoded", "skipped"} /\ WalletTyped /\ ListsTyped

\* The instruction is the top-level one of the trade.
MadeBy(t, ix) ==
  \/ \E form \in Forms :
       t.via = form.program /\ ix = FormInstruction(form, t.in, t.out, FALSE)
  \/ t.via \in Routers /\ ix = Plain(t.via)
  \/ /\ t.via = "PUMPFUN" /\ t.in = "WSOL" /\ t.out \in Tokens
     /\ ix = CurveInstruction("buy", t.out)
  \/ /\ t.via = "PUMPFUN" /\ t.out = "WSOL" /\ t.in \in Tokens
     /\ ix = CurveInstruction("sell", t.in)

Explained(ix) ==
  \/ ix \in {Plain("SYSTEM"), Plain("TOKEN")}
  \/ one_sided /\ ix \in {Plain(p) : p \in Claimable}
  \/ \E k \in DOMAIN swaps : MadeBy(swaps[k], ix)

\* Nothing is called for no reason, and every trade was made by something.
InstructionsInv ==
  /\ \A i \in DOMAIN outer : Explained(outer[i])
  /\ \A i \in DOMAIN inner : inner[i].is_inner /\ inner[i].program \in PoolPrograms
  /\ \A k \in DOMAIN swaps :
       \/ \E i \in DOMAIN outer :
            MadeBy(swaps[k], outer[i]) /\ outer[i].program \in Programs
       \/ swaps[k].via # "PUMPFUN" /\ inner # <<>>

\* What moved beside the trades, in native and in wrapped SOL.
Around == moved.unwrapped - moved.wrapped - moved.fees - moved.deposits
Wrapped(m) == IF m = "WSOL" THEN moved.wrapped - moved.unwrapped ELSE 0

\* What the trade itself does to native SOL and to the token accounts.
Native(t) ==
  IF t.via # "PUMPFUN" THEN 0 ELSE IF t.in = "WSOL" THEN -t.spent ELSE t.got
Part(t, m) ==
  IF t.via = "PUMPFUN" /\ m = "WSOL" THEN 0
  ELSE IF m = t.in THEN -t.spent ELSE IF m = t.out THEN t.got ELSE 0

\* What fees, deposits and wrapping do not explain, in native SOL and in the
\* account of a mint.
Off == lamports - start.lamports - Around
Excess(m) == Change(m) - Wrapped(m)

\* The books of a transaction with at most one trade balance: whatever is not
\* explained is the trade, or the one side that was claimed or supplied.
BooksInv ==
  /\ \A k \in DOMAIN swaps : swaps[k].in # swaps[k].out
  /\ swaps = <<>> => Off = 0
  /\ swaps = <<>> /\ ~one_sided => \A m \in Mint : Excess(m) = 0
  /\ swaps = <<>> => \E side \in Mint : \A m \in Mint \ {side} : Excess(m) = 0
  /\ Len(swaps) = 1 => Off = Native(swaps[1])
  /\ Single => \A m \in Mint : Excess(m) = Part(swaps[1], m)

DecodedInv ==
  /\ phase = "decoded" => decoded = DecodeTransaction(Context)
  /\ phase # "decoded" => decoded = NoSwap

TxInv == TypesInv /\ InstructionsInv /\ BooksInv /\ DecodedInv

-----------------------------------------------------------------------------
(* The frame of a transaction.                                             *)

\* The frame's fields.
LEMMA ContextFields ==
  /\ Context.signer = "target"
  /\ Context.pre_sol = start.lamports /\ Context.post_sol = lamports
  /\ Context.instructions = outer \o inner
  /\ Context.pre = Balances(start.tokens, [m \in Mint |-> Pooled])
  /\ Context.post = Balances(tokens, vaults)
BY DEF Context

\* The sum over the wallet's accounts of a mint is its one account of it.
LEMMA BalanceOfMint ==
  ASSUME NEW wallet \in [Mint -> Account], NEW pool, NEW m \in Mint
  PROVE  MapThenSumSet(Amount,
             {b \in Balances(wallet, pool) : b.owner = "target" /\ b.mint = m})
           = IF wallet[m] = Absent THEN 0 ELSE wallet[m]
<1> DEFINE own == [account |-> m, mint |-> m, owner |-> "target", amount |-> wallet[m]]
           S == {b \in Balances(wallet, pool) : b.owner = "target" /\ b.mint = m}
<1>1. S = IF wallet[m] = Absent THEN {} ELSE {own}
  BY DEF Balances
<1>2. own.amount = wallet[m]
  OBVIOUS
<1> HIDE DEF S, own
<1>3. CASE wallet[m] = Absent
  BY <1>1, <1>3, SumOfNone DEF S
<1>4. CASE wallet[m] # Absent
  <2>1. MapThenSumSet(Amount, S) = wallet[m] + 0
    BY <1>1, <1>2, <1>4, SumOfOne
  <2>2. wallet[m] \in Nat
    BY <1>4 DEF Account
  <2>3. MapThenSumSet(Amount, S) = wallet[m]
    BY <2>1, <2>2
  <2> QED BY <1>4, <2>3 DEF S
<1> QED BY <1>3, <1>4

\* signer_token_delta is the change of the wallet's account.
LEMMA TokenDelta ==
  ASSUME TypesInv, NEW m \in Mint
  PROVE  SignerTokenDelta(Context, m) = Change(m) /\ Change(m) \in Int
<1>1. tokens \in [Mint -> Account] /\ start.tokens \in [Mint -> Account]
  BY DEF TypesInv, WalletTyped, ListsTyped
<1>2. SignerTokenDelta(Context, m) = Change(m)
  BY <1>1, ContextFields, BalanceOfMint DEF SignerTokenDelta, Change, Held
<1>3. tokens[m] \in Account /\ start.tokens[m] \in Account
  BY <1>1
<1>4. Change(m) \in Int
  BY <1>3 DEF Change, Held, Account, Absent
<1> QED BY <1>2, <1>4

\* An account of the wallet is listed with its own mint at most, and what is no
\* token account with none.
LEMMA ListedMints ==
  /\ \A m \in Mint : MintsOf(Context, m) \subseteq {m}
  /\ MintsOf(Context, "KEY") = {}
<1>1. "KEY" \notin Mint /\ "VAULT" \notin Mint
  BY AccountsAssumption DEF Mint, Quotes
<1>2. ASSUME NEW wallet, NEW pool, NEW a, a # "VAULT", NEW b \in Balances(wallet, pool),
             b.account = a
      PROVE  a \in Mint /\ b.mint = a
  BY <1>2 DEF Balances
<1>3. \A a : a # "VAULT" =>
        \A b \in Context.post \union Context.pre : b.account = a => a \in Mint /\ b.mint = a
  BY <1>2, ContextFields
<1> QED BY <1>1, <1>3 DEF MintsOf

\* sol_delta is the change of the wallet's lamports.
LEMMA NativeDelta ==
  ASSUME TypesInv
  PROVE  /\ SolDelta(Context) = lamports - start.lamports
         /\ lamports \in Nat /\ start.lamports \in Nat
<1>1. lamports \in Nat /\ start.lamports \in Nat
  BY DEF TypesInv, WalletTyped, ListsTyped
<1> QED BY <1>1, ContextFields DEF SolDelta

\* The frame of a transaction is one the pool lemmas are about.
LEMMA ContextIsSane == TypesInv => Sane(Context)
<1> SUFFICES ASSUME TypesInv PROVE Sane(Context)
  OBVIOUS
<1>1. SolDelta(Context) \in Int
  BY NativeDelta
<1>2. \A m \in Mint : SignerTokenDelta(Context, m) \in Int
  BY TokenDelta
<1> QED BY <1>1, <1>2, ListedMints DEF Sane

-----------------------------------------------------------------------------
(* What the cascade makes of a transaction.                                *)

\* The frame lists the top-level instructions as they are, and the inner ones.
LEMMA Listing ==
  ASSUME TypesInv
  PROVE  LET all == Context.instructions IN
         /\ DOMAIN all \in SUBSET Nat
         /\ \A i \in DOMAIN outer : i \in DOMAIN all /\ all[i] = outer[i]
         /\ \A i \in DOMAIN all :
              \/ i \in DOMAIN outer /\ all[i] = outer[i]
              \/ \E j \in DOMAIN inner : all[i] = inner[j]
         /\ \A j \in DOMAIN inner : \E i \in DOMAIN all : all[i] = inner[j]
<1> DEFINE all == outer \o inner
           m == Len(outer)
           n == Len(inner)
<1>1. outer \in Seq(Possible) /\ inner \in Seq(Possible)
  BY DEF TypesInv, WalletTyped, ListsTyped
<1>2. m \in Nat /\ n \in Nat /\ DOMAIN outer = 1..m /\ DOMAIN inner = 1..n
  BY <1>1, LenProperties
<1>3. /\ all \in Seq(Possible) /\ Len(all) = m + n
      /\ \A i \in 1..m + n : all[i] = IF i <= m THEN outer[i] ELSE inner[i - m]
  BY <1>1, ConcatProperties
<1>4. DOMAIN all = 1..m + n
  BY <1>3, LenProperties
<1>5. Context.instructions = all
  BY ContextFields
<1> HIDE DEF all, m, n
<1>6. DOMAIN all \in SUBSET Nat
  BY <1>2, <1>4
<1>7. \A i \in DOMAIN outer : i \in DOMAIN all /\ all[i] = outer[i]
  BY <1>2, <1>3, <1>4
<1>8. ASSUME NEW i \in DOMAIN all
      PROVE  \/ i \in DOMAIN outer /\ all[i] = outer[i]
             \/ \E j \in DOMAIN inner : all[i] = inner[j]
  <2>1. i \in Nat /\ 1 <= i /\ i <= m + n
    BY <1>2, <1>4, <1>8
  <2>2. CASE i <= m
    BY <1>2, <1>3, <1>4, <1>8, <2>1, <2>2
  <2>3. CASE ~(i <= m)
    <3>1. i - m \in 1..n /\ all[i] = inner[i - m]
      BY <1>2, <1>3, <2>1, <2>3
    <3> QED BY <1>2, <3>1
  <2> QED BY <2>2, <2>3
<1>9. ASSUME NEW j \in DOMAIN inner PROVE \E i \in DOMAIN all : all[i] = inner[j]
  <2>1. j \in 1..n
    BY <1>2, <1>9
  <2>2. m + j \in 1..m + n /\ ~(m + j <= m) /\ (m + j) - m = j
    BY <1>2, <2>1
  <2>3. all[m + j] = inner[j]
    BY <1>3, <2>2
  <2> QED BY <1>4, <2>2, <2>3
<1> QED BY <1>5, <1>6, <1>7, <1>8, <1>9

FromCurve(t, d) ==
  LET sol == SolDelta(Context) IN
  \/ /\ t.in = "WSOL" /\ t.out \in Tokens /\ sol < 0 /\ Change(t.out) > 0
     /\ Legs(d, "WSOL", -sol, t.out, Change(t.out))
  \/ /\ t.out = "WSOL" /\ t.in \in Tokens /\ sol > 0 /\ Change(t.in) < 0
     /\ Legs(d, t.in, -Change(t.in), "WSOL", sol)

FromPool(t, d) == Built(Context, t.in, t.out, d) \/ Built(Context, t.out, t.in, d)

\* Tokens are mints, and wrapped SOL is no token.
LEMMA TokensAreMints == Tokens \subseteq Mint /\ "WSOL" \in Mint /\ "WSOL" \notin Tokens
BY TokensAssumption DEF Mint, Quotes

\* A Pump.fun instruction is answered with its trade, and passed over only when
\* the balances did not move as the trade says.
LEMMA CurveDecoded ==
  ASSUME TypesInv, NEW t \in TradeSet, NEW ix, t.via = "PUMPFUN", MadeBy(t, ix)
  PROVE  LET d == DecodeInstruction(Context, ix) IN
         /\ ~ix.is_inner
         /\ d = NoSwap \/ FromCurve(t, d)
         /\ t.in = "WSOL" \/ t.out = "WSOL"
         /\ d = NoSwap => /\ t.in = "WSOL" => ~(SolDelta(Context) < 0 /\ Change(t.out) > 0)
                          /\ t.out = "WSOL" => ~(SolDelta(Context) > 0 /\ Change(t.in) < 0)
<1> DEFINE d == DecodeInstruction(Context, ix)
           sol == SolDelta(Context)
<1>1. \/ t.in = "WSOL" /\ t.out \in Tokens /\ ix = CurveInstruction("buy", t.out)
      \/ t.out = "WSOL" /\ t.in \in Tokens /\ ix = CurveInstruction("sell", t.in)
  BY ProgramsAssumption DEF MadeBy, PoolPrograms
<1>2. CASE t.in = "WSOL" /\ t.out \in Tokens /\ ix = CurveInstruction("buy", t.out)
  <2>1. t.out \in Mint /\ t.out # "WSOL"
    BY <1>2, TokensAreMints
  <2>2. Change(t.out) = SignerTokenDelta(Context, t.out)
    BY <2>1, TokenDelta
  <2>3. d = IF sol < 0 /\ Change(t.out) > 0
            THEN Swap("PumpFun", "Buy", "WSOL", -sol, t.out, Change(t.out)) ELSE NoSwap
    BY <1>2, <2>2, CurveAnswers
  <2>4. ~ix.is_inner
    BY <1>2, CurveFields
  <2>5. Classify("WSOL", t.out) = "Buy"
    BY <1>2, TokensAssumption DEF Classify, Quotes
  <2>6. ASSUME sol < 0, Change(t.out) > 0
        PROVE  Legs(d, "WSOL", -sol, t.out, Change(t.out)) /\ d # NoSwap
    <3>1. d = Swap("PumpFun", "Buy", "WSOL", -sol, t.out, Change(t.out))
      BY <2>3, <2>6
    <3> HIDE DEF d
    <3> QED BY <2>5, <3>1, SwapLegs DEF Legs
  <2> HIDE DEF d, sol
  <2>7. CASE sol < 0 /\ Change(t.out) > 0
    BY <1>2, <2>1, <2>4, <2>6, <2>7 DEF FromCurve, sol, d
  <2>8. CASE ~(sol < 0 /\ Change(t.out) > 0)
    BY <1>2, <2>1, <2>3, <2>4, <2>8 DEF sol, d
  <2> QED BY <2>7, <2>8
<1>3. CASE t.out = "WSOL" /\ t.in \in Tokens /\ ix = CurveInstruction("sell", t.in)
  <2>1. t.in \in Mint /\ t.in # "WSOL"
    BY <1>3, TokensAreMints
  <2>2. Change(t.in) = SignerTokenDelta(Context, t.in)
    BY <2>1, TokenDelta
  <2>3. d = IF sol > 0 /\ Change(t.in) < 0
            THEN Swap("PumpFun", "Sell", t.in, -Change(t.in), "WSOL", sol) ELSE NoSwap
    BY <1>3, <2>2, CurveAnswers
  <2>4. ~ix.is_inner
    BY <1>3, CurveFields
  <2>5. Classify(t.in, "WSOL") = "Sell"
    BY <1>3, TokensAssumption DEF Classify, Quotes
  <2>6. ASSUME sol > 0, Change(t.in) < 0
        PROVE  Legs(d, t.in, -Change(t.in), "WSOL", sol) /\ d # NoSwap
    <3>1. d = Swap("PumpFun", "Sell", t.in, -Change(t.in), "WSOL", sol)
      BY <2>3, <2>6
    <3> HIDE DEF d
    <3> QED BY <2>5, <3>1, SwapLegs DEF Legs
  <2> HIDE DEF d, sol
  <2>7. CASE sol > 0 /\ Change(t.in) < 0
    BY <1>3, <2>1, <2>4, <2>6, <2>7 DEF FromCurve, sol, d
  <2>8. CASE ~(sol > 0 /\ Change(t.in) < 0)
    BY <1>3, <2>1, <2>3, <2>4, <2>8 DEF sol, d
  <2> QED BY <2>7, <2>8
<1> QED BY <1>1, <1>2, <1>3

\* The instruction of any other trade is answered from the balances or from the
\* two sides of that trade.
LEMMA OthersDecoded ==
  ASSUME TypesInv, NEW t \in TradeSet, NEW ix, t.via # "PUMPFUN", MadeBy(t, ix)
  PROVE  LET d == DecodeInstruction(Context, ix) IN
         /\ ~ix.is_inner
         /\ d \in {NoSwap, Failed} \/ ReadFromDeltas(Context, d) \/ FromPool(t, d)
<1>1. CASE t.via \in Routers /\ ix = Plain(t.via)
  BY <1>1, PlainAnswers
<1>2. ASSUME NEW form \in Forms, ix = FormInstruction(form, t.in, t.out, FALSE)
      PROVE  LET d == DecodeInstruction(Context, ix) IN
             /\ ~ix.is_inner
             /\ d \in {NoSwap, Failed} \/ FromPool(t, d)
  <2>1. form.program \in PoolPrograms /\ t.in \in Mint /\ t.out \in Mint
    BY ProgramsAssumption DEF TradeSet
  <2>2. ~ix.is_inner
    BY <1>2 DEF FormInstruction, Instruction
  <2>3. Sane(Context)
    BY ContextIsSane
  <2> QED BY <1>2, <2>1, <2>2, <2>3, PoolAnswers DEF FromPool
<1> QED BY <1>1, <1>2 DEF MadeBy

FromTrade(t, d) == IF t.via = "PUMPFUN" THEN FromCurve(t, d) ELSE FromPool(t, d)

\* A trade that was made is a trade.
LEMMA TradesTyped ==
  ASSUME TypesInv, NEW k \in DOMAIN swaps
  PROVE  swaps[k] \in TradeSet
BY LenProperties, ElementOfSeq DEF TypesInv, WalletTyped, ListsTyped

\* Whatever a top-level instruction is answered with comes from the balances or
\* from a trade the transaction made.
LEMMA TopLevelDecoded ==
  ASSUME TypesInv, InstructionsInv, NEW i \in DOMAIN outer
  PROVE  LET d == DecodeInstruction(Context, outer[i]) IN
         /\ ~outer[i].is_inner
         /\ \/ d \in {NoSwap, Failed} \/ ReadFromDeltas(Context, d)
            \/ \E k \in DOMAIN swaps : FromTrade(swaps[k], d)
<1> DEFINE ix == outer[i]
           d == DecodeInstruction(Context, ix)
<1>1. Explained(ix)
  BY DEF InstructionsInv
<1> HIDE DEF ix
<1>2. CASE ix \in {Plain("SYSTEM"), Plain("TOKEN")}
  <2>1. ix = Plain("SYSTEM") \/ ix = Plain("TOKEN")
    BY <1>2
  <2>2. ~ix.is_inner /\ d = NoSwap
    BY <2>1, PlainAnswers
  <2> QED BY <2>2 DEF ix
<1>3. CASE ix \in {Plain(p) : p \in Claimable}
  <2>1. PICK p \in Claimable : ix = Plain(p)
    BY <1>3
  <2>2. ~ix.is_inner /\ (d = NoSwap \/ ReadFromDeltas(Context, d))
    BY <2>1, PlainAnswers
  <2> QED BY <2>2 DEF ix
<1>4. CASE \E k \in DOMAIN swaps : MadeBy(swaps[k], ix)
  <2>1. PICK k \in DOMAIN swaps : MadeBy(swaps[k], ix)
    BY <1>4
  <2>2. swaps[k] \in TradeSet
    BY TradesTyped
  <2>3. /\ ~ix.is_inner
        /\ d \in {NoSwap, Failed} \/ ReadFromDeltas(Context, d) \/ FromTrade(swaps[k], d)
    BY <2>1, <2>2, CurveDecoded, OthersDecoded DEF FromTrade
  <2> QED BY <2>3 DEF ix
<1> QED BY <1>1, <1>2, <1>3, <1>4 DEF Explained

\* Every top-level instruction was passed over.
Passed == \A i \in DOMAIN outer : DecodeInstruction(Context, outer[i]) = NoSwap

KnownProgram ==
  (\E i \in DOMAIN outer : outer[i].program \in Programs) \/ inner # <<>>

\* decode_transaction: the first top-level answer, else what is inferred when a
\* supported program was called.
LEMMA Cascade ==
  ASSUME TypesInv, InstructionsInv
  PROVE  LET d == DecodeTransaction(Context) IN
         /\ ~Passed => \E i \in DOMAIN outer :
                         d = DecodeInstruction(Context, outer[i]) /\ d # NoSwap
         /\ Passed => d = IF KnownProgram THEN InferFromBalanceDeltas(Context) ELSE NoSwap
<1> DEFINE all == Context.instructions
           settled == {i \in DOMAIN all :
                         ~all[i].is_inner /\ DecodeInstruction(Context, all[i]) # NoSwap}
           d == DecodeTransaction(Context)
<1>1. d = IF settled # {} THEN DecodeInstruction(Context, all[Min(settled)])
          ELSE IF \E i \in DOMAIN all : all[i].program \in Programs
               THEN InferFromBalanceDeltas(Context) ELSE NoSwap
  BY DEF DecodeTransaction
<1>2. /\ DOMAIN all \in SUBSET Nat
      /\ \A i \in DOMAIN outer : i \in DOMAIN all /\ all[i] = outer[i]
      /\ \A i \in DOMAIN all :
           \/ i \in DOMAIN outer /\ all[i] = outer[i]
           \/ \E j \in DOMAIN inner : all[i] = inner[j]
      /\ \A j \in DOMAIN inner : \E i \in DOMAIN all : all[i] = inner[j]
  BY Listing
<1> HIDE DEF all
<1>3. \A i \in settled : i \in DOMAIN outer /\ all[i] = outer[i]
  <2> TAKE i \in settled
  <2>1. i \in DOMAIN all /\ ~all[i].is_inner
    OBVIOUS
  <2>2. \A j \in DOMAIN inner : all[i] # inner[j]
    BY <2>1 DEF InstructionsInv
  <2> QED BY <1>2, <2>1, <2>2
<1>4. settled = {i \in DOMAIN outer : DecodeInstruction(Context, outer[i]) # NoSwap}
  <2>1. \A i \in settled : DecodeInstruction(Context, outer[i]) # NoSwap
    BY <1>3
  <2>2. \A i \in DOMAIN outer : DecodeInstruction(Context, outer[i]) # NoSwap => i \in settled
    BY <1>2, TopLevelDecoded
  <2> QED BY <1>3, <2>1, <2>2
<1>5. (\E i \in DOMAIN all : all[i].program \in Programs) <=> KnownProgram
  <2>1. ASSUME NEW i \in DOMAIN all, all[i].program \in Programs PROVE KnownProgram
    <3>1. CASE i \in DOMAIN outer /\ all[i] = outer[i]
      BY <2>1, <3>1 DEF KnownProgram
    <3>2. CASE \E j \in DOMAIN inner : all[i] = inner[j]
      BY <3>2 DEF KnownProgram
    <3> QED BY <1>2, <2>1, <3>1, <3>2
  <2>2. ASSUME NEW i \in DOMAIN outer, outer[i].program \in Programs
        PROVE  \E j \in DOMAIN all : all[j].program \in Programs
    BY <1>2, <2>2
  <2>3. ASSUME inner # <<>> PROVE \E j \in DOMAIN all : all[j].program \in Programs
    <3>1. 1 \in DOMAIN inner
      BY <2>3, EmptySeq, LenProperties DEF TypesInv, WalletTyped, ListsTyped
    <3>2. inner[1].program \in Programs
      BY <3>1 DEF InstructionsInv, PoolPrograms, Programs
    <3> QED BY <1>2, <3>1, <3>2
  <2> QED BY <2>1, <2>2, <2>3 DEF KnownProgram
<1> HIDE DEF settled
<1>6. CASE settled # {}
  <2>1. settled \in SUBSET Nat
    BY <1>2 DEF settled
  <2>2. Min(settled) \in settled
    BY <1>6, <2>1, MinExists
  <2>3. /\ Min(settled) \in DOMAIN outer /\ all[Min(settled)] = outer[Min(settled)]
        /\ DecodeInstruction(Context, outer[Min(settled)]) # NoSwap
    BY <1>3, <1>4, <2>2
  <2>4. ~Passed
    BY <2>3 DEF Passed
  <2> QED BY <1>1, <1>6, <2>3, <2>4
<1>7. CASE settled = {}
  <2>1. Passed
    BY <1>4, <1>7 DEF Passed
  <2> QED BY <1>1, <1>5, <1>7, <2>1
<1> QED BY <1>6, <1>7

\* Whatever is reported was read from the balances or from a trade.
LEMMA Answered ==
  ASSUME TypesInv, InstructionsInv
  PROVE  LET d == DecodeTransaction(Context) IN
         \/ d \in {NoSwap, Failed} \/ ReadFromDeltas(Context, d)
         \/ \E k \in DOMAIN swaps : FromTrade(swaps[k], d)
<1>1. CASE Passed
  BY <1>1, Cascade, InferAnswers
<1>2. CASE ~Passed
  BY <1>2, Cascade, TopLevelDecoded
<1> QED BY <1>1, <1>2

-----------------------------------------------------------------------------
(* What an answer says of the wallet.                                      *)

\* Only the change of wrapped SOL has native SOL added to it.
LEMMA NetDeltas ==
  ASSUME TypesInv, NEW m \in Mint
  PROVE  /\ SolDelta(Context) \in Int /\ Change(m) \in Int /\ NetDelta(Context, m) \in Int
         /\ NetDelta(Context, m)
              = Change(m) + IF m = "WSOL" /\ Abs(SolDelta(Context)) > Threshold
                            THEN SolDelta(Context) ELSE 0
         /\ m # "WSOL" => NetDelta(Context, m) = Change(m)
<1> DEFINE c == Change(m)
           sol == SolDelta(Context)
           hidden == IF m = "WSOL" /\ Abs(sol) > Threshold THEN sol ELSE 0
<1>1. c \in Int /\ SignerTokenDelta(Context, m) = c
  BY TokenDelta
<1>2. sol \in Int
  BY NativeDelta
<1>3. NetDelta(Context, m) = c + hidden
  BY <1>1 DEF NetDelta
<1>4. hidden \in Int /\ (m # "WSOL" => hidden = 0)
  BY <1>2
<1> HIDE DEF c, hidden
<1>5. c + hidden \in Int /\ (m # "WSOL" => c + hidden = c)
  BY <1>1, <1>4
<1> QED BY <1>1, <1>2, <1>3, <1>5 DEF c, hidden

\* The amounts are positive, and a leg in a token is the wallet's change.
Honest(d) ==
  /\ d.input_mint \in Mint /\ d.output_mint \in Mint
  /\ d.input_amount \in Nat \ {0} /\ d.output_amount \in Nat \ {0}
  /\ d.input_mint # "WSOL" => Change(d.input_mint) = -d.input_amount
  /\ d.output_mint # "WSOL" => Change(d.output_mint) = d.output_amount

\* Two positive legs, each the wallet's change when it is no SOL, are honest.
LEMMA HonestLegs ==
  ASSUME NEW d, NEW in \in Mint, NEW out \in Mint, NEW a \in Int, NEW b \in Int, a > 0, b > 0,
         Legs(d, in, a, out, b),
         in # "WSOL" => Change(in) = -a,
         out # "WSOL" => Change(out) = b
  PROVE  Honest(d) /\ d.kind = "swap"
<1>1. /\ d.kind = "swap" /\ d.input_mint = in /\ d.input_amount = a
      /\ d.output_mint = out /\ d.output_amount = b
  BY DEF Legs
<1>2. a \in Nat \ {0} /\ b \in Nat \ {0}
  OBVIOUS
<1> QED BY <1>1, <1>2 DEF Honest

\* What is read from the balances is honest.
LEMMA DeltasAreHonest ==
  ASSUME TypesInv, NEW d, ReadFromDeltas(Context, d)
  PROVE  Honest(d) /\ d.kind = "swap"
<1>1. PICK in \in Mint, out \in Mint :
        /\ Falling(Context) = {in} /\ Rising(Context) = {out}
        /\ Legs(d, in, -NetDelta(Context, in), out, NetDelta(Context, out))
  BY DEF ReadFromDeltas
<1> DEFINE x == NetDelta(Context, in)
           y == NetDelta(Context, out)
<1>2. x < -Dust /\ y > Dust
  BY <1>1 DEF Falling, Rising
<1>3. x \in Int /\ (in # "WSOL" => Change(in) = x)
  BY NetDeltas
<1>4. y \in Int /\ (out # "WSOL" => Change(out) = y)
  BY NetDeltas
<1>5. Legs(d, in, -x, out, y)
  BY <1>1
<1> HIDE DEF x, y
<1>6. -x \in Int /\ -x > 0 /\ y > 0 /\ -(-x) = x
  BY <1>2, <1>3, <1>4, DecoderAssumption
<1> QED BY <1>3, <1>4, <1>5, <1>6, HonestLegs

\* What build_swap makes is honest.
LEMMA BuiltIsHonest ==
  ASSUME TypesInv, NEW d, NEW in \in Mint, NEW out \in Mint, Built(Context, in, out, d)
  PROVE  Honest(d) /\ d.kind = "swap"
<1> DEFINE x == Change(in)
           y == Change(out)
           sol == SolDelta(Context)
           a == IF x >= 0 /\ in = "WSOL" THEN -sol ELSE -x
<1>1. /\ x = SignerTokenDelta(Context, in) /\ x \in Int
      /\ y = SignerTokenDelta(Context, out) /\ y \in Int
  BY TokenDelta
<1>2. a > 0 /\ y > 0 /\ Legs(d, in, a, out, y)
  BY <1>1 DEF Built
<1>3. sol \in Int
  BY NativeDelta
<1>4. in # "WSOL" => x = -a
  BY <1>1
<1>5. a \in Int
  BY <1>1, <1>3
<1> HIDE DEF a
<1> QED BY <1>1, <1>2, <1>4, <1>5, HonestLegs

\* What decode_pumpfun makes is honest.
LEMMA CurveIsHonest ==
  ASSUME TypesInv, NEW t \in TradeSet, NEW d, FromCurve(t, d)
  PROVE  Honest(d) /\ d.kind = "swap"
<1> DEFINE sol == SolDelta(Context)
<1>1. sol \in Int /\ "WSOL" \in Mint /\ Tokens \subseteq Mint
  BY NativeDelta, TokensAreMints
<1>2. CASE /\ t.in = "WSOL" /\ t.out \in Tokens /\ sol < 0 /\ Change(t.out) > 0
           /\ Legs(d, "WSOL", -sol, t.out, Change(t.out))
  <2>1. t.out \in Mint /\ Change(t.out) \in Int
    BY <1>1, <1>2, TokenDelta
  <2>2. -sol \in Int /\ -sol > 0
    BY <1>1, <1>2
  <2> HIDE DEF sol
  <2> QED BY <1>1, <1>2, <2>1, <2>2, HonestLegs
<1>3. CASE /\ t.out = "WSOL" /\ t.in \in Tokens /\ sol > 0 /\ Change(t.in) < 0
           /\ Legs(d, t.in, -Change(t.in), "WSOL", sol)
  <2> DEFINE c == Change(t.in)
  <2>1. t.in \in Mint /\ c \in Int
    BY <1>1, <1>3, TokenDelta
  <2>2. -c \in Int /\ -c > 0 /\ c = -(-c)
    BY <1>3, <2>1
  <2>3. Legs(d, t.in, -c, "WSOL", sol) /\ sol > 0
    BY <1>3
  <2>4. t.in # "WSOL" => Change(t.in) = -(-c)
    BY <2>2
  <2> HIDE DEF sol, c
  <2> QED BY <1>1, <2>1, <2>2, <2>3, <2>4, HonestLegs
<1> QED BY <1>2, <1>3 DEF FromCurve

\* Whichever decoder answers, the answer is honest.
LEMMA AnswersAreHonest ==
  ASSUME TypesInv, InstructionsInv, NEW d, d = DecodeTransaction(Context)
  PROVE  d \in {NoSwap, Failed} \/ (Honest(d) /\ d.kind = "swap")
<1>1. CASE ReadFromDeltas(Context, d)
  BY <1>1, DeltasAreHonest
<1>2. ASSUME NEW k \in DOMAIN swaps, FromTrade(swaps[k], d)
      PROVE  Honest(d) /\ d.kind = "swap"
  <2>1. swaps[k] \in TradeSet /\ swaps[k].in \in Mint /\ swaps[k].out \in Mint
    BY TradesTyped DEF TradeSet
  <2> QED BY <1>2, <2>1, BuiltIsHonest, CurveIsHonest DEF FromTrade, FromPool
<1>3. \/ d \in {NoSwap, Failed} \/ ReadFromDeltas(Context, d)
      \/ \E k \in DOMAIN swaps : FromTrade(swaps[k], d)
  BY Answered
<1> QED BY <1>1, <1>2, <1>3

\* What a swap that was reported says.
LEMMA ReportedSwap ==
  ASSUME TxInv
  PROVE  /\ decoded.kind \in {"none", "err", "swap"}
         /\ IsSwap => /\ phase = "decoded" /\ decoded = DecodeTransaction(Context)
                      /\ Honest(decoded)
<1>1. NoSwap.kind = "none" /\ Failed.kind = "err"
  BY DEF NoSwap, Failed
<1>2. CASE phase = "decoded"
  BY <1>1, <1>2, AnswersAreHonest DEF TxInv, DecodedInv, IsSwap
<1>3. CASE phase # "decoded"
  BY <1>1, <1>3 DEF TxInv, DecodedInv, IsSwap
<1> QED BY <1>2, <1>3

\* The types follow from the invariant, the sign of the amounts from the
\* decoders' own guards.
LEMMA TypesHold == TxInv => TxTypeOK
<1> SUFFICES ASSUME TxInv PROVE TxTypeOK
  OBVIOUS
<1>1. IsSwap => {decoded.input_amount, decoded.output_amount} \subseteq Nat \ {0}
  BY ReportedSwap DEF Honest
<1>2. decoded.kind \in {"none", "err", "swap"}
  BY ReportedSwap
<1> QED BY <1>1, <1>2 DEF TxInv, TypesInv, WalletTyped, ListsTyped, TxTypeOK, Account

\* A leg in a token is the wallet's own change of it.
LEMMA LegsHold == TxInv => LegsAreReal
BY ReportedSwap DEF Honest, LegsAreReal

\* The change of native SOL is what moved beside the trades, and the rest.
LEMMA OffIs ==
  ASSUME TypesInv
  PROVE  Off \in Int /\ Around \in Int /\ SolDelta(Context) = Around + Off
<1>1. /\ moved.fees \in Nat /\ moved.deposits \in Int
      /\ moved.wrapped \in Nat /\ moved.unwrapped \in Nat
  BY DEF TypesInv, WalletTyped, ListsTyped, Moved
<1>2. Around \in Int
  BY <1>1 DEF Around
<1>3. lamports \in Nat /\ start.lamports \in Nat
  BY NativeDelta
<1> QED BY <1>2, <1>3, NativeDelta DEF Off

\* The change of an account is what was wrapped, and the rest.
LEMMA ExcessIs ==
  ASSUME TypesInv, NEW m \in Mint
  PROVE  Excess(m) \in Int /\ Wrapped(m) \in Int /\ Change(m) = Excess(m) + Wrapped(m)
<1>1. moved.wrapped \in Nat /\ moved.unwrapped \in Nat
  BY DEF TypesInv, WalletTyped, ListsTyped, Moved
<1>2. Wrapped(m) \in Int
  BY <1>1 DEF Wrapped
<1>3. Change(m) \in Int
  BY TokenDelta
<1> DEFINE w == Wrapped(m)
           c == Change(m)
<1>4. Excess(m) = c - w
  BY DEF Excess
<1>5. w \in Int /\ c \in Int
  BY <1>2, <1>3
<1> HIDE DEF w, c
<1> QED BY <1>4, <1>5 DEF w, c

-----------------------------------------------------------------------------
(* A transaction with one trade.                                           *)

\* With one trade and nothing one-sided, the books say that the rest is exactly
\* the trade.
LEMMA TheTrade ==
  ASSUME TypesInv, BooksInv, Single
  PROVE  /\ Trade \in TradeSet /\ Trade.in # Trade.out /\ DOMAIN swaps = {1}
         /\ Trade.in \in Mint /\ Trade.out \in Mint
         /\ Trade.spent \in Nat \ {0} /\ Trade.got \in Nat \ {0}
         /\ SolDelta(Context) = Around + Native(Trade)
         /\ \A m \in Mint : Change(m) = Part(Trade, m) + Wrapped(m)
<1>1. DOMAIN swaps = 1..Len(swaps) /\ Len(swaps) = 1
  BY LenProperties DEF TypesInv, WalletTyped, ListsTyped, Single
<1>2. DOMAIN swaps = {1}
  BY <1>1
<1>3. Trade \in TradeSet
  BY <1>2, TradesTyped DEF Trade
<1>4. Trade.in # Trade.out
  BY <1>2 DEF BooksInv, Trade
<1>5. SolDelta(Context) = Around + Native(Trade)
  <2>1. Off = Native(Trade)
    BY <1>1 DEF BooksInv, Trade
  <2> QED BY <2>1, OffIs
<1>6. \A m \in Mint : Change(m) = Part(Trade, m) + Wrapped(m)
  <2> TAKE m \in Mint
  <2>1. Excess(m) = Part(Trade, m)
    BY DEF BooksInv, Trade
  <2> QED BY <2>1, ExcessIs
<1> QED BY <1>2, <1>3, <1>4, <1>5, <1>6 DEF TradeSet

\* The change of a token is the trade's, fees and wrapping notwithstanding.
LEMMA TokenSides ==
  ASSUME TypesInv, BooksInv, Single, NEW m \in Mint, m # "WSOL"
  PROVE  /\ NetDelta(Context, m) = Change(m)
         /\ Change(m) = IF m = Trade.in THEN -Trade.spent
                        ELSE IF m = Trade.out THEN Trade.got ELSE 0
<1>1. Change(m) = Part(Trade, m) + 0
  BY TheTrade DEF Wrapped
<1>2. Part(Trade, m) = IF m = Trade.in THEN -Trade.spent
                       ELSE IF m = Trade.out THEN Trade.got ELSE 0
  BY DEF Part
<1> DEFINE p == Part(Trade, m)
<1>3. p \in Int
  BY <1>2, TheTrade
<1>4. Change(m) = p + 0
  BY <1>1
<1> HIDE DEF p
<1>5. Change(m) = p
  BY <1>3, <1>4
<1> QED BY <1>2, <1>5, NetDeltas DEF p

\* With one trade larger than dust, the one mint that fell and the one that
\* rose are its sides: SOL moved around it cannot turn it over.
LEMMA DeltasFindTrade ==
  ASSUME TypesInv, BooksInv, Single, Sizable, NEW d, ReadFromDeltas(Context, d)
  PROVE  Legs(d, Trade.in, -NetDelta(Context, Trade.in),
              Trade.out, NetDelta(Context, Trade.out))
<1>1. PICK in \in Mint, out \in Mint :
        /\ Falling(Context) = {in} /\ Rising(Context) = {out}
        /\ Legs(d, in, -NetDelta(Context, in), out, NetDelta(Context, out))
  BY DEF ReadFromDeltas
<1> DEFINE t == Trade
           spent == Trade.spent
           got == Trade.got
<1>2. /\ t.in # t.out /\ t.in \in Mint /\ t.out \in Mint
      /\ spent \in Nat \ {0} /\ got \in Nat \ {0} /\ spent > Dust /\ got > Dust /\ Dust \in Nat
  BY TheTrade, DecoderAssumption DEF Sizable
<1>3. \A m \in Mint : m # "WSOL" =>
        NetDelta(Context, m) = IF m = t.in THEN -spent ELSE IF m = t.out THEN got ELSE 0
  BY TokenSides
<1> HIDE DEF t, spent, got
<1>4. /\ -spent < -Dust /\ ~(-spent > Dust) /\ got > Dust /\ ~(got < -Dust)
      /\ ~(0 < -Dust) /\ ~(0 > Dust)
  BY <1>2
<1>5. in = t.in
  <2>1. CASE t.in # "WSOL"
    <3>1. t.in \in Falling(Context)
      BY <1>2, <1>3, <1>4, <2>1 DEF Falling
    <3> QED BY <1>1, <3>1
  <2>2. CASE t.in = "WSOL"
    <3>1. in \in Falling(Context)
      BY <1>1
    <3>2. ASSUME in # "WSOL" PROVE FALSE
      <4>1. NetDelta(Context, in) = got \/ NetDelta(Context, in) = 0
        BY <1>3, <2>2, <3>2
      <4> QED BY <1>4, <3>1, <4>1 DEF Falling
    <3> QED BY <2>2, <3>2
  <2> QED BY <2>1, <2>2
<1>6. out = t.out
  <2>1. CASE t.out # "WSOL"
    <3>1. t.out \in Rising(Context)
      BY <1>2, <1>3, <1>4, <2>1 DEF Rising
    <3> QED BY <1>1, <3>1
  <2>2. CASE t.out = "WSOL"
    <3>1. out \in Rising(Context)
      BY <1>1
    <3>2. ASSUME out # "WSOL" PROVE FALSE
      <4>1. NetDelta(Context, out) = -spent \/ NetDelta(Context, out) = 0
        BY <1>3, <2>2, <3>2
      <4> QED BY <1>4, <3>1, <4>1 DEF Rising
    <3> QED BY <2>2, <3>2
  <2> QED BY <2>1, <2>2
<1> QED BY <1>1, <1>5, <1>6 DEF t

\* A pool decoder that reads the two sides in the wrong order reports nothing.
LEMMA PoolFindsTrade ==
  ASSUME TypesInv, BooksInv, Single, NEW d, FromPool(Trade, d)
  PROVE  Built(Context, Trade.in, Trade.out, d)
<1> SUFFICES ASSUME Built(Context, Trade.out, Trade.in, d) PROVE FALSE
  BY DEF FromPool
<1> DEFINE in == Trade.in
           out == Trade.out
           x == Change(out)
           y == Change(in)
           a == IF x >= 0 /\ out = "WSOL" THEN -SolDelta(Context) ELSE -x
<1>1. /\ in # out /\ in \in Mint /\ out \in Mint
      /\ Trade.spent \in Nat \ {0} /\ Trade.got \in Nat \ {0}
  BY TheTrade
<1>2. x = SignerTokenDelta(Context, out) /\ y = SignerTokenDelta(Context, in)
  BY <1>1, TokenDelta
<1>3. a > 0 /\ y > 0
  BY <1>2 DEF Built
<1>4. CASE in # "WSOL"
  <2>1. y = -Trade.spent
    BY <1>1, <1>4, TokenSides
  <2>2. ~(-Trade.spent > 0)
    BY <1>1
  <2> QED BY <1>3, <2>1, <2>2
<1>5. CASE in = "WSOL"
  <2>1. out # "WSOL" /\ x = Trade.got
    BY <1>1, <1>5, TokenSides
  <2>2. a = -Trade.got
    BY <2>1
  <2>3. ~(-Trade.got > 0)
    BY <1>1
  <2> QED BY <1>3, <2>2, <2>3
<1> QED BY <1>4, <1>5

\* How the one trade of a transaction was read.
ReadAsTrade(d) ==
  \/ Legs(d, Trade.in, -NetDelta(Context, Trade.in), Trade.out, NetDelta(Context, Trade.out))
  \/ Trade.via # "PUMPFUN" /\ Built(Context, Trade.in, Trade.out, d)
  \/ Trade.via = "PUMPFUN" /\ FromCurve(Trade, d)

\* The swap reported for the one trade was read as that trade.
LEMMA SingleSwap ==
  ASSUME TxInv, IsSwap, Single, Sizable
  PROVE  ReadAsTrade(decoded)
<1>1. /\ decoded = DecodeTransaction(Context) /\ decoded.kind = "swap"
      /\ TypesInv /\ InstructionsInv /\ BooksInv
  BY ReportedSwap DEF TxInv, IsSwap
<1>2. decoded # NoSwap /\ decoded # Failed
  BY <1>1 DEF NoSwap, Failed
<1>3. DOMAIN swaps = {1} /\ swaps[1] = Trade
  BY <1>1, TheTrade DEF Trade
<1>4. ReadFromDeltas(Context, decoded) \/ FromTrade(Trade, decoded)
  BY <1>1, <1>2, <1>3, Answered
<1> QED BY <1>1, <1>4, DeltasFindTrade, PoolFindsTrade DEF ReadAsTrade, FromTrade

\* Read as the trade, it names the trade's mints in their order.
LEMMA NamesTheTrade ==
  ASSUME TypesInv, BooksInv, Single, NEW d, ReadAsTrade(d)
  PROVE  /\ d.input_mint = Trade.in /\ d.output_mint = Trade.out
         /\ d.direction = Classify(Trade.in, Trade.out)
BY DEF ReadAsTrade, Built, FromCurve, Legs

\* The one trade of a transaction is never reported as another.
LEMMA NeverInvertedHolds == TxInv => NeverInverted
<1> SUFFICES ASSUME TxInv, IsSwap, Single, Sizable
             PROVE  /\ decoded.input_mint = Trade.in /\ decoded.output_mint = Trade.out
                    /\ decoded.direction = "Buy"
                         <=> Trade.in \in Quotes /\ Trade.out \in Tokens
                    /\ decoded.direction = "Sell"
                         <=> Trade.in \in Tokens /\ Trade.out \in Quotes
  BY DEF NeverInverted
<1>1. /\ decoded.input_mint = Trade.in /\ decoded.output_mint = Trade.out
      /\ decoded.direction = Classify(Trade.in, Trade.out)
  BY SingleSwap, NamesTheTrade DEF TxInv
<1>2. Trade.in \in Mint /\ Trade.out \in Mint
  BY TheTrade DEF TxInv
<1>3. /\ Trade.in \in Tokens <=> Trade.in \notin Quotes
      /\ Trade.out \in Tokens <=> Trade.out \notin Quotes
  BY <1>2, TokensAssumption DEF Mint
<1> QED BY <1>1, <1>3 DEF Classify

-----------------------------------------------------------------------------
(* The SOL leg.                                                            *)

\* What Abs bounds.
LEMMA AbsIs ==
  ASSUME NEW n \in Int
  PROVE  Abs(n) \in Nat /\ n <= Abs(n) /\ -n <= Abs(n) /\ (Abs(n) = n \/ Abs(n) = -n)
BY DEF Abs

\* A Pump.fun trade is read by its decoder, or else the native change did not
\* have the sign of the trade.
LEMMA CurvePassedOver ==
  ASSUME TxInv, IsSwap, Single, Sizable, Trade.via = "PUMPFUN"
  PROVE  \/ FromCurve(Trade, decoded)
         \/ /\ Legs(decoded, Trade.in, -NetDelta(Context, Trade.in),
                    Trade.out, NetDelta(Context, Trade.out))
            /\ Trade.in = "WSOL" => ~(SolDelta(Context) < 0)
            /\ Trade.out = "WSOL" => ~(SolDelta(Context) > 0)
<1>1. /\ decoded = DecodeTransaction(Context) /\ decoded.kind = "swap"
      /\ TypesInv /\ InstructionsInv /\ BooksInv
  BY ReportedSwap DEF TxInv, IsSwap
<1>2. decoded # NoSwap
  BY <1>1 DEF NoSwap
<1>3. DOMAIN swaps = {1} /\ swaps[1] = Trade /\ Trade \in TradeSet
  BY <1>1, TheTrade DEF Trade
<1>4. CASE Passed
  <2>1. PICK i \in DOMAIN outer : MadeBy(Trade, outer[i])
    BY <1>1, <1>3 DEF InstructionsInv
  <2>2. DecodeInstruction(Context, outer[i]) = NoSwap
    BY <1>4 DEF Passed
  <2>3. /\ Trade.in = "WSOL" => ~(SolDelta(Context) < 0 /\ Change(Trade.out) > 0)
        /\ Trade.out = "WSOL" => ~(SolDelta(Context) > 0 /\ Change(Trade.in) < 0)
    BY <1>1, <1>3, <2>1, <2>2, CurveDecoded
  <2>4. /\ Trade.in # Trade.out /\ Trade.in \in Mint /\ Trade.out \in Mint
        /\ Trade.spent \in Nat \ {0} /\ Trade.got \in Nat \ {0}
    BY <1>1, TheTrade
  <2>5. /\ Trade.in = "WSOL" => Change(Trade.out) = Trade.got
        /\ Trade.out = "WSOL" => Change(Trade.in) = -Trade.spent
    BY <1>1, <2>4, TokenSides
  <2>6. Trade.got > 0 /\ -Trade.spent < 0
    BY <2>4
  <2>7. ReadFromDeltas(Context, decoded)
    BY <1>1, <1>2, <1>4, Cascade, InferAnswers
  <2> QED BY <1>1, <2>3, <2>5, <2>6, <2>7, DeltasFindTrade
<1>5. CASE ~Passed
  <2>1. PICK i \in DOMAIN outer : decoded = DecodeInstruction(Context, outer[i])
    BY <1>1, <1>5, Cascade
  <2>2. Explained(outer[i]) /\ ~one_sided
    BY <1>1 DEF InstructionsInv, Single
  <2>3. outer[i] \notin {Plain("SYSTEM"), Plain("TOKEN")}
    <3>1. ASSUME NEW p \in {"SYSTEM", "TOKEN"}, outer[i] = Plain(p) PROVE FALSE
      BY <1>2, <2>1, <3>1, PlainAnswers
    <3> QED BY <3>1
  <2>4. MadeBy(Trade, outer[i])
    BY <1>3, <2>2, <2>3 DEF Explained
  <2> QED BY <1>1, <1>2, <1>3, <2>1, <2>4, CurveDecoded
<1> QED BY <1>4, <1>5

\* The arithmetic of a SOL leg that was spent: whichever of the changes of the
\* account (c) and of native SOL (sol) is reported, it is off by what moved
\* beside the trade at most.
LEMMA BoughtLeg ==
  ASSUME NEW f \in Nat, NEW dep \in Int, NEW w \in Nat, NEW u \in Nat, NEW s \in Nat,
         NEW curve \in BOOLEAN, NEW c \in Int, NEW sol \in Int, NEW a \in Int,
         c = (IF curve THEN 0 ELSE -s) + (w - u),
         sol = (u - w - f - dep) + (IF curve THEN -s ELSE 0),
         \/ a = -(c + sol)
         \/ a = -c /\ ~curve
         \/ a = -c /\ curve /\ ~(sol < 0)
         \/ a = -sol /\ ~curve /\ c >= 0
         \/ a = -sol /\ curve
  PROVE  Abs(a - s) <= f + Abs(dep) + w + u
<1> DEFINE d == Abs(dep)
<1>1. d \in Nat /\ dep <= d /\ -dep <= d
  BY AbsIs
<1>2. a - s \in Int /\ (Abs(a - s) = a - s \/ Abs(a - s) = -(a - s))
  BY AbsIs
<1> HIDE DEF d
<1>3. a - s <= f + d + w + u /\ -(a - s) <= f + d + w + u
  <2>1. CASE curve
    BY <1>1, <2>1
  <2>2. CASE ~curve
    BY <1>1, <2>2
  <2> QED BY <2>1, <2>2
<1> QED BY <1>2, <1>3 DEF d

\* The arithmetic of a SOL leg that was received.
LEMMA SoldLeg ==
  ASSUME NEW f \in Nat, NEW dep \in Int, NEW w \in Nat, NEW u \in Nat, NEW g \in Nat,
         NEW curve \in BOOLEAN, NEW c \in Int, NEW sol \in Int, NEW b \in Int,
         c = (IF curve THEN 0 ELSE g) + (w - u),
         sol = (u - w - f - dep) + (IF curve THEN g ELSE 0),
         \/ b = c + sol
         \/ b = c /\ ~curve
         \/ b = c /\ curve /\ ~(sol > 0)
         \/ b = sol /\ curve
  PROVE  Abs(b - g) <= f + Abs(dep) + w + u
<1> DEFINE d == Abs(dep)
<1>1. d \in Nat /\ dep <= d /\ -dep <= d
  BY AbsIs
<1>2. b - g \in Int /\ (Abs(b - g) = b - g \/ Abs(b - g) = -(b - g))
  BY AbsIs
<1> HIDE DEF d
<1>3. b - g <= f + d + w + u /\ -(b - g) <= f + d + w + u
  <2>1. CASE curve
    BY <1>1, <2>1
  <2>2. CASE ~curve
    BY <1>1, <2>2
  <2> QED BY <2>1, <2>2
<1> QED BY <1>2, <1>3 DEF d

\* The SOL leg is off by the SOL that moved beside the trade at most.
LEMMA SolLegHolds == TxInv => SolLegBounded
<1> SUFFICES ASSUME TxInv, IsSwap, Single, Sizable
             PROVE  /\ decoded.input_mint = "WSOL"
                         => Abs(decoded.input_amount - Trade.spent) <= Beside
                    /\ decoded.output_mint = "WSOL"
                         => Abs(decoded.output_amount - Trade.got) <= Beside
  BY DEF SolLegBounded
<1> DEFINE t == Trade
           s == Trade.spent
           g == Trade.got
           f == moved.fees
           dep == moved.deposits
           w == moved.wrapped
           u == moved.unwrapped
           c == Change("WSOL")
           sol == SolDelta(Context)
           net == NetDelta(Context, "WSOL")
           curve == Trade.via = "PUMPFUN"
           a == decoded.input_amount
           b == decoded.output_amount
<1>1. TypesInv /\ BooksInv /\ InstructionsInv
  BY DEF TxInv
<1>2. f \in Nat /\ dep \in Int /\ w \in Nat /\ u \in Nat
  BY <1>1 DEF TypesInv, WalletTyped, ListsTyped, Moved
<1>3. /\ t.in # t.out /\ s \in Nat \ {0} /\ g \in Nat \ {0} /\ "WSOL" \in Mint
      /\ t.in \in Mint /\ t.out \in Mint
  BY <1>1, TheTrade, TokensAreMints
<1>4. /\ c = Part(t, "WSOL") + (w - u) /\ sol = (u - w - f - dep) + Native(t)
  BY <1>1, <1>3, TheTrade DEF Wrapped, Around
<1>5. c \in Int /\ sol \in Int /\ (net = c + sol \/ net = c + 0)
  BY <1>1, <1>3, NetDeltas
<1>6. net = c + sol \/ net = c
  BY <1>5
<1>7. a \in Int /\ b \in Int
  BY ReportedSwap DEF Honest
<1>8. decoded.input_mint = t.in /\ decoded.output_mint = t.out /\ ReadAsTrade(decoded)
  BY <1>1, SingleSwap, NamesTheTrade
<1>9. curve \in BOOLEAN /\ Beside = f + Abs(dep) + w + u
  BY DEF Beside
<1>10. ASSUME t.in = "WSOL" PROVE Abs(a - s) <= Beside
  <2>1. c = (IF curve THEN 0 ELSE -s) + (w - u)
    BY <1>3, <1>4, <1>10 DEF Part
  <2>2. sol = (u - w - f - dep) + (IF curve THEN -s ELSE 0)
    BY <1>4, <1>10 DEF Native
  <2>3. CASE curve
    <3>1. \/ a = -net /\ ~(sol < 0)
          \/ a = -sol
      BY <1>3, <1>10, <2>3, CurvePassedOver DEF FromCurve, Legs
    <3> HIDE DEF a, b, c, sol, net, s, g, f, dep, w, u, curve
    <3>2. a = -(c + sol) \/ (a = -c /\ ~(sol < 0)) \/ a = -sol
      BY <1>6, <3>1
    <3> QED BY <1>2, <1>3, <1>5, <1>7, <1>9, <2>1, <2>2, <2>3, <3>2, BoughtLeg
  <2>4. CASE ~curve
    <3>1. \/ a = -net
          \/ Built(Context, "WSOL", t.out, decoded)
      BY <1>8, <1>10, <2>4 DEF ReadAsTrade, Legs
    <3>2. ASSUME Built(Context, "WSOL", t.out, decoded)
          PROVE  a = IF c >= 0 THEN -sol ELSE -c
      <4>1. c = SignerTokenDelta(Context, "WSOL")
        BY <1>1, <1>3, TokenDelta
      <4> QED BY <3>2, <4>1 DEF Built, Legs
    <3> HIDE DEF a, b, c, sol, net, s, g, f, dep, w, u, curve
    <3>3. a = -(c + sol) \/ a = -c \/ (a = -sol /\ c >= 0)
      BY <1>6, <3>1, <3>2
    <3> QED BY <1>2, <1>3, <1>5, <1>7, <1>9, <2>1, <2>2, <2>4, <3>3, BoughtLeg
  <2> QED BY <2>3, <2>4
<1>11. ASSUME t.out = "WSOL" PROVE Abs(b - g) <= Beside
  <2>1. c = (IF curve THEN 0 ELSE g) + (w - u)
    BY <1>3, <1>4, <1>11 DEF Part
  <2>2. sol = (u - w - f - dep) + (IF curve THEN g ELSE 0)
    BY <1>3, <1>4, <1>11 DEF Native
  <2>3. CASE curve
    <3>1. \/ b = net /\ ~(sol > 0)
          \/ b = sol
      BY <1>3, <1>11, <2>3, CurvePassedOver DEF FromCurve, Legs
    <3> HIDE DEF a, b, c, sol, net, s, g, f, dep, w, u, curve
    <3>2. b = c + sol \/ (b = c /\ ~(sol > 0)) \/ b = sol
      BY <1>6, <3>1
    <3> QED BY <1>2, <1>3, <1>5, <1>7, <1>9, <2>1, <2>2, <2>3, <3>2, SoldLeg
  <2>4. CASE ~curve
    <3>1. \/ b = net
          \/ Built(Context, t.in, "WSOL", decoded)
      BY <1>8, <1>11, <2>4 DEF ReadAsTrade, Legs
    <3>2. ASSUME Built(Context, t.in, "WSOL", decoded)
          PROVE  b = c
      <4>1. c = SignerTokenDelta(Context, "WSOL")
        BY <1>1, <1>3, TokenDelta
      <4> QED BY <3>2, <4>1 DEF Built, Legs
    <3> HIDE DEF a, b, c, sol, net, s, g, f, dep, w, u, curve
    <3>3. b = c + sol \/ b = c
      BY <1>6, <3>1, <3>2
    <3> QED BY <1>2, <1>3, <1>5, <1>7, <1>9, <2>1, <2>2, <2>4, <3>3, SoldLeg
  <2> QED BY <2>3, <2>4
<1> QED BY <1>8, <1>10, <1>11

\* A SOL buy that shows in the SOL balance is reported as a buy: either some
\* decoder reads it, or the cascade falls through to the balances.
LEMMA SolBuysHold == TxInv => SolBuysSeen
<1> SUFFICES ASSUME TxInv, phase = "decoded", Single, Sizable, Trade.in = "WSOL",
                    Trade.out \notin Quotes, NetDelta(Context, "WSOL") < -Dust,
                    decoded # Failed
             PROVE  IsSwap /\ decoded.direction = "Buy"
  BY DEF SolBuysSeen
<1>1. /\ TypesInv /\ InstructionsInv /\ BooksInv
      /\ decoded = DecodeTransaction(Context)
  BY DEF TxInv, DecodedInv
<1>2. /\ Trade.in # Trade.out /\ Trade.out \in Mint /\ DOMAIN swaps = {1}
      /\ "WSOL" \in Mint /\ Trade.got \in Nat \ {0}
  BY <1>1, TheTrade, TokensAreMints
<1>3. decoded # NoSwap
  <2>1. CASE Passed
    <3>1. KnownProgram
      BY <1>1, <1>2 DEF InstructionsInv, KnownProgram
    <3>2. decoded = InferFromBalanceDeltas(Context)
      BY <1>1, <2>1, <3>1, Cascade
    <3>3. \A m \in Mint : m # "WSOL" =>
            NetDelta(Context, m) = IF m = Trade.out THEN Trade.got ELSE 0
      BY <1>1, TokenSides
    <3>4. /\ ~(NetDelta(Context, "WSOL") > Dust) /\ Trade.got > Dust
          /\ ~(Trade.got < -Dust) /\ ~(0 < -Dust) /\ ~(0 > Dust)
      <4> DEFINE net == NetDelta(Context, "WSOL")
      <4>1. net \in Int /\ net < -Dust
        BY <1>1, <1>2, NetDeltas
      <4> HIDE DEF net
      <4>2. ~(net > Dust)
        BY <4>1, DecoderAssumption
      <4> QED BY <1>2, <4>2, DecoderAssumption DEF Sizable, net
    <3>5. Falling(Context) = {"WSOL"}
      BY <1>2, <3>3, <3>4 DEF Falling
    <3>6. Rising(Context) = {Trade.out}
      BY <1>2, <3>3, <3>4 DEF Rising
    <3> QED BY <1>2, <3>2, <3>5, <3>6, InferAnswers
  <2>2. CASE ~Passed
    BY <1>1, <2>2, Cascade
  <2> QED BY <2>1, <2>2
<1>4. IsSwap
  BY <1>1, <1>3, AnswersAreHonest DEF IsSwap
<1>5. Trade.in \in Quotes /\ Trade.out \in Tokens
  BY <1>2 DEF Quotes, Mint
<1> QED BY <1>4, <1>5, NeverInvertedHolds DEF NeverInverted

\* Without a trade, the net change of SOL is fees, deposits and what the
\* threshold hides.
LEMMA PhantomLeg ==
  ASSUME NEW f \in Nat, NEW dep \in Int, NEW w \in Nat, NEW u \in Nat,
         NEW c \in Int, NEW sol \in Int, NEW net \in Int,
         c = w - u, sol = u - w - f - dep,
         net = c + IF Abs(sol) > Threshold THEN sol ELSE 0
  PROVE  Abs(net) <= f + Abs(dep) + Threshold
<1> DEFINE d == Abs(dep)
           e == Abs(sol)
<1>1. d \in Nat /\ dep <= d /\ -dep <= d
  BY AbsIs
<1>2. Abs(net) = net \/ Abs(net) = -net
  BY AbsIs
<1>3. sol <= e /\ -sol <= e /\ e \in Nat
  BY AbsIs
<1>4. net = c + IF e > Threshold THEN sol ELSE 0
  OBVIOUS
<1> HIDE DEF d, e
<1>5. CASE e > Threshold
  <2>1. net = -f - dep
    BY <1>4, <1>5
  <2> QED BY <1>1, <1>2, <2>1, DecoderAssumption DEF d
<1>6. CASE ~(e > Threshold)
  <2>1. net = w - u /\ e <= Threshold
    BY <1>3, <1>4, <1>6, DecoderAssumption
  <2>2. net <= f + d + Threshold /\ -net <= f + d + Threshold
    BY <1>1, <1>3, <2>1, DecoderAssumption
  <2> QED BY <1>2, <2>2 DEF d
<1> QED BY <1>5, <1>6

\* What is reported without a trade has a small SOL leg.
LEMMA PhantomsHold == TxInv => PhantomsAreSmall
<1> SUFFICES ASSUME TxInv, IsSwap, swaps = <<>>
             PROVE  /\ decoded.input_mint = "WSOL"
                         => decoded.input_amount
                              <= moved.fees + Abs(moved.deposits) + Threshold
                    /\ decoded.output_mint = "WSOL"
                         => decoded.output_amount
                              <= moved.fees + Abs(moved.deposits) + Threshold
  BY DEF PhantomsAreSmall
<1>1. /\ TypesInv /\ InstructionsInv /\ BooksInv
      /\ decoded = DecodeTransaction(Context) /\ decoded.kind = "swap"
  BY ReportedSwap DEF TxInv, IsSwap
<1>2. ReadFromDeltas(Context, decoded)
  <2>1. decoded # NoSwap /\ decoded # Failed
    BY <1>1 DEF NoSwap, Failed
  <2>2. DOMAIN swaps = {}
    OBVIOUS
  <2> QED BY <1>1, <2>1, <2>2, Answered
<1>3. PICK in \in Mint, out \in Mint :
        /\ Falling(Context) = {in} /\ Rising(Context) = {out}
        /\ Legs(decoded, in, -NetDelta(Context, in), out, NetDelta(Context, out))
  BY <1>2 DEF ReadFromDeltas
<1>4. PICK side \in Mint : \A m \in Mint \ {side} : Excess(m) = 0
  BY <1>1 DEF BooksInv
<1> DEFINE net == NetDelta(Context, "WSOL")
           bound == moved.fees + Abs(moved.deposits) + Threshold
           x == NetDelta(Context, in)
           y == NetDelta(Context, out)
<1>5. x < -Dust /\ y > Dust /\ x \in Int /\ y \in Int
  BY <1>1, <1>3, NetDeltas DEF Falling, Rising
<1>6. in # out /\ x # 0 /\ y # 0
  <2>1. in = out => x = y
    OBVIOUS
  <2> HIDE DEF x, y
  <2> QED BY <1>5, <2>1, DecoderAssumption
<1>7. \A m \in Mint : m # "WSOL" /\ NetDelta(Context, m) # 0 => m = side
  BY <1>1, <1>4, ExcessIs, NetDeltas DEF Wrapped
<1>8. ASSUME "WSOL" \in {in, out} PROVE Abs(net) <= bound
  <2>1. side # "WSOL" /\ "WSOL" \in Mint
    BY <1>6, <1>7, <1>8
  <2>2. Change("WSOL") = moved.wrapped - moved.unwrapped
    BY <1>1, <1>4, <2>1, ExcessIs DEF Wrapped
  <2>3. SolDelta(Context) = moved.unwrapped - moved.wrapped - moved.fees - moved.deposits
    <3>1. Off = 0
      BY <1>1 DEF BooksInv
    <3>2. SolDelta(Context) = Around + 0
      BY <1>1, <3>1, OffIs
    <3>3. Around \in Int
      BY <1>1, OffIs
    <3> QED BY <3>2, <3>3 DEF Around
  <2>4. /\ moved.fees \in Nat /\ moved.deposits \in Int
        /\ moved.wrapped \in Nat /\ moved.unwrapped \in Nat
    BY <1>1 DEF TypesInv, WalletTyped, ListsTyped, Moved
  <2>5. /\ SolDelta(Context) \in Int /\ Change("WSOL") \in Int /\ net \in Int
        /\ net = Change("WSOL")
                   + IF Abs(SolDelta(Context)) > Threshold THEN SolDelta(Context) ELSE 0
    BY <1>1, <2>1, NetDeltas
  <2> HIDE DEF net
  <2> QED BY <2>2, <2>3, <2>4, <2>5, PhantomLeg
<1>9. net <= Abs(net) /\ -net <= Abs(net) /\ Abs(net) \in Int /\ net \in Int
  BY <1>1, TokensAreMints, NetDeltas, AbsIs
<1>10. bound \in Int
  <2>1. moved.fees \in Nat /\ moved.deposits \in Int
    BY <1>1 DEF TypesInv, WalletTyped, ListsTyped, Moved
  <2>2. Abs(moved.deposits) \in Nat
    BY <2>1, AbsIs
  <2> QED BY <2>1, <2>2, DecoderAssumption
<1>11. /\ decoded.input_mint = in /\ decoded.input_amount = -x
       /\ decoded.output_mint = out /\ decoded.output_amount = y
  BY <1>3 DEF Legs
<1>12. (in = "WSOL" => x = net) /\ (out = "WSOL" => y = net)
  OBVIOUS
<1> HIDE DEF net, bound, x, y
<1>13. "WSOL" \in {in, out} => net <= bound /\ -net <= bound
  <2>1. Abs(net) \in Int
    BY <1>9
  <2> DEFINE n == Abs(net)
  <2> HIDE DEF n
  <2>2. "WSOL" \in {in, out} => n <= bound
    BY <1>8 DEF n
  <2>3. net <= n /\ -net <= n /\ n \in Int /\ net \in Int
    BY <1>9 DEF n
  <2> QED BY <1>10, <2>2, <2>3
<1> QED BY <1>11, <1>12, <1>13 DEF bound

==============================================================================
