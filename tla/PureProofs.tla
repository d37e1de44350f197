----------------------------- MODULE PureProofs ------------------------------
(***************************************************************************)
(* The theorems of MCPure: every step of a transaction keeps its books     *)
(* balanced, so the properties of the decoder hold in every state; the risk*)
(* arithmetic fits for every probe; the configuration's wallets agree with *)
(* the subscription, and its text is expanded as one scan reads it.        *)
(***************************************************************************)
EXTENDS MCPure, DecoderProofs

-----------------------------------------------------------------------------
(* The steps of a transaction.                                             *)

\* A list with one more element at its end.
LEMMA GrowsByOne ==
  ASSUME NEW S, NEW seq \in Seq(S), NEW e \in S
  PROVE  LET longer == Append(seq, e) IN
         /\ longer \in Seq(S) /\ Len(seq) \in Nat /\ Len(longer) = Len(seq) + 1
         /\ \A i \in DOMAIN seq : i \in DOMAIN longer /\ longer[i] = seq[i]
         /\ Len(seq) + 1 \in DOMAIN longer /\ longer[Len(seq) + 1] = e
         /\ \A i \in DOMAIN longer : (i \in DOMAIN seq /\ longer[i] = seq[i]) \/ longer[i] = e
<1> DEFINE longer == Append(seq, e)
           n == Len(seq)
<1>1. /\ longer \in Seq(S) /\ Len(longer) = n + 1
      /\ \A i \in 1..n : longer[i] = seq[i]
      /\ longer[n + 1] = e
  BY AppendProperties
<1>2. n \in Nat /\ DOMAIN seq = 1..n /\ DOMAIN longer = 1..n + 1
  BY <1>1, LenProperties
<1> HIDE DEF longer, n
<1>3. \A i \in 1..n + 1 : i \in 1..n \/ i = n + 1
  BY <1>2
<1>4. n + 1 \in 1..n + 1 /\ \A i \in 1..n : i \in 1..n + 1
  BY <1>2
<1> QED BY <1>1, <1>2, <1>3, <1>4 DEF longer, n

\* An instruction that trades nothing keeps every other instruction explained.
LEMMA NothingTraded ==
  ASSUME ListsTyped, InstructionsInv, Building, NEW ix \in Possible,
         outer' = Append(outer, ix), inner' = inner, swaps' = swaps,
         one_sided => one_sided',
         \/ ix \in {Plain("SYSTEM"), Plain("TOKEN")}
         \/ one_sided' /\ ix \in {Plain(p) : p \in Claimable}
  PROVE  ListsTyped' /\ InstructionsInv'
<1>1. /\ outer' \in Seq(Possible) /\ Len(outer') = Len(outer) + 1
      /\ \A i \in DOMAIN outer : i \in DOMAIN outer' /\ outer'[i] = outer[i]
      /\ \A i \in DOMAIN outer' :
           (i \in DOMAIN outer /\ outer'[i] = outer[i]) \/ outer'[i] = ix
  BY GrowsByOne DEF ListsTyped
<1>2. ListsTyped'
  <2>1. Len(outer) \in Nat /\ Len(inner) \in Nat /\ MaxInstructions \in Nat
    BY LenProperties, TargetTxAssumption DEF ListsTyped
  <2>2. Len(outer) + Len(inner) < MaxInstructions
    BY DEF Building
  <2>3. Len(outer') + Len(inner') <= MaxInstructions + 1
    BY <1>1, <2>1, <2>2
  <2> QED BY <1>1, <2>3 DEF ListsTyped
<1>3. Explained(ix)'
  BY DEF Explained
<1>4. ASSUME NEW i \in DOMAIN outer PROVE Explained(outer[i])'
  BY <1>1 DEF InstructionsInv, Explained
<1>5. \A i \in DOMAIN outer' : Explained(outer[i])'
  BY <1>1, <1>3, <1>4 DEF Explained
<1>6. \A k \in DOMAIN swaps' :
        \/ \E i \in DOMAIN outer' :
             MadeBy(swaps'[k], outer'[i]) /\ outer'[i].program \in Programs
        \/ swaps'[k].via # "PUMPFUN" /\ inner' # <<>>
  BY <1>1 DEF InstructionsInv
<1> QED BY <1>2, <1>5, <1>6 DEF InstructionsInv

\* A trade comes with the instruction that made it.
LEMMA SomethingTraded ==
  ASSUME ListsTyped, InstructionsInv, Building, NEW ix \in Possible, NEW t \in TradeSet,
         outer' = Append(outer, ix), swaps' = Append(swaps, t), Len(swaps) < MaxSwaps,
         one_sided' = one_sided, MadeBy(t, ix),
         \/ inner' = inner /\ ix.program \in Programs
         \/ /\ t.via # "PUMPFUN"
            /\ \E jx \in Possible : /\ jx.is_inner /\ jx.program \in PoolPrograms
                                    /\ inner' = Append(inner, jx)
  PROVE  ListsTyped' /\ InstructionsInv'
<1>1. /\ outer' \in Seq(Possible) /\ Len(outer') = Len(outer) + 1
      /\ \A i \in DOMAIN outer : i \in DOMAIN outer' /\ outer'[i] = outer[i]
      /\ Len(outer) + 1 \in DOMAIN outer' /\ outer'[Len(outer) + 1] = ix
      /\ \A i \in DOMAIN outer' :
           (i \in DOMAIN outer /\ outer'[i] = outer[i]) \/ outer'[i] = ix
  BY GrowsByOne DEF ListsTyped
<1>2. /\ swaps' \in Seq(TradeSet) /\ Len(swaps') = Len(swaps) + 1
      /\ \A i \in DOMAIN swaps : i \in DOMAIN swaps' /\ swaps'[i] = swaps[i]
      /\ Len(swaps) + 1 \in DOMAIN swaps' /\ swaps'[Len(swaps) + 1] = t
      /\ \A i \in DOMAIN swaps' :
           (i \in DOMAIN swaps /\ swaps'[i] = swaps[i]) \/ swaps'[i] = t
  BY GrowsByOne DEF ListsTyped
<1>3. /\ inner' \in Seq(Possible) /\ Len(inner') \in {Len(inner), Len(inner) + 1}
      /\ inner # <<>> => inner' # <<>>
      /\ \A i \in DOMAIN inner' :
           inner'[i].is_inner /\ inner'[i].program \in PoolPrograms
      /\ inner' # inner => inner' # <<>>
  <2>1. CASE inner' = inner
    BY <2>1 DEF ListsTyped, InstructionsInv
  <2>2. ASSUME NEW jx \in Possible, jx.is_inner, jx.program \in PoolPrograms,
               inner' = Append(inner, jx)
        PROVE  /\ inner' \in Seq(Possible) /\ Len(inner') \in {Len(inner), Len(inner) + 1}
               /\ inner # <<>> => inner' # <<>>
               /\ \A i \in DOMAIN inner' :
                    inner'[i].is_inner /\ inner'[i].program \in PoolPrograms
               /\ inner' # inner => inner' # <<>>
    <3>0. inner \in Seq(Possible)
      BY DEF ListsTyped
    <3>1. /\ inner' \in Seq(Possible) /\ Len(inner') = Len(inner) + 1
          /\ Len(inner) + 1 \in DOMAIN inner'
          /\ \A i \in DOMAIN inner' :
               (i \in DOMAIN inner /\ inner'[i] = inner[i]) \/ inner'[i] = jx
      BY <2>2, <3>0, GrowsByOne
    <3>2. inner' # <<>>
      BY <3>1
    <3> QED BY <2>2, <3>1, <3>2 DEF InstructionsInv
  <2> QED BY <2>1, <2>2
<1>4. ListsTyped'
  <2>1. /\ Len(outer) \in Nat /\ Len(inner) \in Nat /\ Len(swaps) \in Nat
        /\ MaxInstructions \in Nat /\ MaxSwaps \in Nat
    BY LenProperties, TargetTxAssumption DEF ListsTyped
  <2>2. Len(outer) + Len(inner) < MaxInstructions
    BY DEF Building
  <2>3. Len(outer') + Len(inner') <= MaxInstructions + 1
    BY <1>1, <1>3, <2>1, <2>2
  <2>4. Len(swaps') <= MaxSwaps
    BY <1>2, <2>1
  <2> QED BY <1>1, <1>2, <1>3, <2>3, <2>4 DEF ListsTyped
<1>5. \A i \in DOMAIN outer' : Explained(outer[i])'
  <2>1. ASSUME NEW i \in DOMAIN outer', outer'[i] = ix PROVE Explained(outer[i])'
    BY <1>2, <2>1 DEF Explained
  <2>2. ASSUME NEW i \in DOMAIN outer', i \in DOMAIN outer, outer'[i] = outer[i]
        PROVE  Explained(outer[i])'
    BY <1>2, <2>2 DEF InstructionsInv, Explained
  <2> QED BY <1>1, <2>1, <2>2
<1>6. \A k \in DOMAIN swaps' :
        \/ \E i \in DOMAIN outer' :
             MadeBy(swaps'[k], outer'[i]) /\ outer'[i].program \in Programs
        \/ swaps'[k].via # "PUMPFUN" /\ inner' # <<>>
  <2>1. ASSUME NEW k \in DOMAIN swaps', k \in DOMAIN swaps, swaps'[k] = swaps[k]
        PROVE  \/ \E i \in DOMAIN outer' :
                    MadeBy(swaps'[k], outer'[i]) /\ outer'[i].program \in Programs
               \/ swaps'[k].via # "PUMPFUN" /\ inner' # <<>>
    BY <1>1, <1>3, <2>1 DEF InstructionsInv
  <2>2. ASSUME NEW k \in DOMAIN swaps', swaps'[k] = t
        PROVE  \/ \E i \in DOMAIN outer' :
                    MadeBy(swaps'[k], outer'[i]) /\ outer'[i].program \in Programs
               \/ swaps'[k].via # "PUMPFUN" /\ inner' # <<>>
    <3>1. CASE inner' = inner /\ ix.program \in Programs
      BY <1>1, <2>2, <3>1
    <3>2. ASSUME t.via # "PUMPFUN", NEW jx \in Possible, inner' = Append(inner, jx)
          PROVE  inner' # <<>>
      BY <3>2, GrowsByOne DEF ListsTyped
    <3> QED BY <2>2, <3>1, <3>2
  <2> QED BY <1>2, <2>1, <2>2
<1> QED BY <1>3, <1>4, <1>5, <1>6 DEF InstructionsInv

\* What the types say of one account.
LEMMA AccountFacts ==
  ASSUME WalletTyped, NEW m \in Mint
  PROVE  /\ tokens[m] \in Account /\ Held(m) \in Nat /\ vaults[m] \in Nat
         /\ tokens[m] = Absent => Held(m) = 0 /\ Deposit(m) = Rent
         /\ tokens[m] # Absent => Held(m) = tokens[m] /\ Deposit(m) = 0
         /\ Deposit(m) \in Nat /\ Change(m) \in Int
<1>1. tokens[m] \in Account /\ start.tokens[m] \in Account /\ vaults[m] \in Nat
  BY DEF WalletTyped
<1>2. Rent \in Nat
  BY TargetTxAssumption
<1>3. Held(m) \in Nat /\ Deposit(m) \in Nat
  BY <1>1, <1>2 DEF Held, Deposit, Account
<1>4. (IF start.tokens[m] = Absent THEN 0 ELSE start.tokens[m]) \in Nat
  BY <1>1 DEF Account
<1> HIDE DEF Held
<1>5. Change(m) \in Int
  BY <1>3, <1>4 DEF Change
<1> QED BY <1>1, <1>2, <1>3, <1>5 DEF Held, Deposit

\* A step that writes one account leaves the others.
LEMMA OneAccount ==
  ASSUME WalletTyped, NEW a \in Mint, NEW v \in Account, tokens' = [tokens EXCEPT ![a] = v]
  PROVE  /\ tokens' \in [Mint -> Account]
         /\ Held(a)' = IF v = Absent THEN 0 ELSE v
         /\ \A m \in Mint \ {a} : tokens'[m] = tokens[m] /\ Held(m)' = Held(m)
BY DEF WalletTyped, Held

\* What leaves a vault was in it.
LEMMA TwoVaults ==
  ASSUME WalletTyped, NEW in \in Mint, NEW out \in Mint, in # out,
         NEW a \in Nat, NEW b \in Nat,
         vaults[out] >= b, vaults' = [vaults EXCEPT ![in] = @ + a, ![out] = @ - b]
  PROVE  vaults' \in [Mint -> Nat]
<1>1. vaults[in] + a \in Nat /\ vaults[out] - b \in Nat
  BY AccountFacts
<1>2. vaults' = [vaults EXCEPT ![in] = vaults[in] + a, ![out] = vaults[out] - b]
  OBVIOUS
<1>3. vaults \in [Mint -> Nat]
  BY DEF WalletTyped
<1> QED BY <1>1, <1>2, <1>3

\* How the unexplained change of native SOL moves with the balance and with
\* what is booked beside the trades.
LEMMA OffMoves ==
  ASSUME WalletTyped, start' = start,
         NEW l \in Nat, lamports' = l, NEW mv \in Moved, moved' = mv
  PROVE  /\ Off \in Int
         /\ Off' = Off + (l - lamports) + (mv.fees - moved.fees)
                       + (mv.deposits - moved.deposits) + (mv.wrapped - moved.wrapped)
                       - (mv.unwrapped - moved.unwrapped)
         /\ Wrapped("WSOL") \in Int
         /\ Wrapped("WSOL")' = Wrapped("WSOL") + (mv.wrapped - moved.wrapped)
                                 - (mv.unwrapped - moved.unwrapped)
         /\ \A m \in Mint \ {"WSOL"} : Wrapped(m)' = Wrapped(m)
<1>1. /\ moved.fees \in Nat /\ moved.deposits \in Int
      /\ moved.wrapped \in Nat /\ moved.unwrapped \in Nat
      /\ lamports \in Nat /\ start.lamports \in Nat
  BY DEF WalletTyped, Moved
<1>2. /\ mv.fees \in Nat /\ mv.deposits \in Int /\ mv.wrapped \in Nat /\ mv.unwrapped \in Nat
  BY DEF Moved
<1>3. /\ Off = lamports - start.lamports
                 - (moved.unwrapped - moved.wrapped - moved.fees - moved.deposits)
      /\ Off' = l - start.lamports - (mv.unwrapped - mv.wrapped - mv.fees - mv.deposits)
  BY DEF Off, Around
<1>4. /\ Wrapped("WSOL") = moved.wrapped - moved.unwrapped
      /\ Wrapped("WSOL")' = mv.wrapped - mv.unwrapped
      /\ \A m \in Mint \ {"WSOL"} : Wrapped(m)' = Wrapped(m)
  BY DEF Wrapped
<1> QED BY <1>1, <1>2, <1>3, <1>4

\* How the unexplained change of an account moves with the account and with
\* what is booked as wrapped.
LEMMA ExcessMoves ==
  ASSUME WalletTyped, start' = start, NEW m \in Mint,
         NEW h \in Int, Held(m)' = h, NEW w \in Int, Wrapped(m)' = w
  PROVE  /\ Excess(m) \in Int /\ Wrapped(m) \in Int
         /\ Excess(m)' = Excess(m) + (h - Held(m)) - (w - Wrapped(m))
<1> DEFINE s == IF start.tokens[m] = Absent THEN 0 ELSE start.tokens[m]
<1>1. start.tokens[m] \in Account /\ moved \in Moved
  BY DEF WalletTyped
<1>2. s \in Int /\ Held(m) \in Int /\ Wrapped(m) \in Int
  BY <1>1, AccountFacts DEF Account, Absent, Wrapped, Moved
<1>3. Excess(m) = (Held(m) - s) - Wrapped(m)
  BY DEF Excess, Change
<1>4. Excess(m)' = (h - s) - w
  BY DEF Excess, Change
<1> HIDE DEF s
<1> QED BY <1>2, <1>3, <1>4

\* A step without a trade keeps the books: it explains everything it moves, or
\* it is the one claim or supply and moves one mint.
LEMMA BooksKept ==
  ASSUME BooksInv, swaps' = swaps, one_sided => one_sided', Off' = Off, NEW side \in Mint,
         \A m \in Mint \ {side} : Excess(m)' = Excess(m),
         Excess(side)' = Excess(side) \/ (~one_sided /\ one_sided')
  PROVE  BooksInv'
<1>1. Single' => Single /\ ~one_sided'
  BY DEF Single
<1>2. ASSUME swaps = <<>>
      PROVE  \E one \in Mint : \A m \in Mint \ {one} : Excess(m)' = 0
  <2>1. CASE Excess(side)' = Excess(side)
    BY <1>2, <2>1 DEF BooksInv
  <2>2. CASE ~one_sided /\ one_sided'
    BY <1>2, <2>2 DEF BooksInv
  <2> QED BY <2>1, <2>2
<1>3. ASSUME ~one_sided', NEW m \in Mint PROVE Excess(m)' = Excess(m)
  BY <1>3
<1>4. ASSUME NEW m \in Mint, Single' PROVE Excess(m)' = Part(swaps'[1], m)
  BY <1>1, <1>3, <1>4 DEF BooksInv
<1>5. ASSUME swaps' = <<>>, ~one_sided', NEW m \in Mint PROVE Excess(m)' = 0
  BY <1>3, <1>5 DEF BooksInv
<1>6. /\ \A k \in DOMAIN swaps' : swaps'[k].in # swaps'[k].out
      /\ swaps' = <<>> => Off' = 0
      /\ Len(swaps') = 1 => Off' = Native(swaps'[1])
  BY DEF BooksInv
<1> QED BY <1>2, <1>4, <1>5, <1>6 DEF BooksInv

\* A step with a trade keeps the books: it moves the trade and nothing else.
LEMMA BooksTraded ==
  ASSUME BooksInv, ListsTyped, NEW t \in TradeSet, t.in # t.out,
         swaps' = Append(swaps, t), one_sided' = one_sided,
         Off' = Off + Native(t), \A m \in Mint : Excess(m)' = Excess(m) + Part(t, m)
  PROVE  BooksInv'
<1>1. /\ Len(swaps) \in Nat /\ Len(swaps') = Len(swaps) + 1
      /\ Len(swaps) + 1 \in DOMAIN swaps' /\ swaps'[Len(swaps) + 1] = t
      /\ \A i \in DOMAIN swaps' :
           (i \in DOMAIN swaps /\ swaps'[i] = swaps[i]) \/ swaps'[i] = t
  BY GrowsByOne DEF ListsTyped
<1>2. swaps' # <<>>
  BY <1>1
<1>3. ASSUME Len(swaps') = 1 PROVE swaps = <<>> /\ swaps'[1] = t
  <2>1. Len(swaps) = 0
    BY <1>1, <1>3
  <2>2. swaps \in Seq(TradeSet)
    BY DEF ListsTyped
  <2> QED BY <1>1, <2>1, <2>2, EmptySeq
<1>4. Native(t) \in Int /\ \A m \in Mint : Part(t, m) \in Int
  BY DEF Native, Part, TradeSet
<1>5. Len(swaps') = 1 => Off' = Native(swaps'[1])
  BY <1>3, <1>4 DEF BooksInv
<1>6. ASSUME Single', NEW m \in Mint PROVE Excess(m)' = Part(swaps'[1], m)
  <2>1. Len(swaps') = 1 /\ ~one_sided
    BY <1>6 DEF Single
  <2>2. Excess(m) = 0 /\ swaps'[1] = t
    BY <1>3, <2>1 DEF BooksInv
  <2> QED BY <1>4, <2>2
<1>7. \A k \in DOMAIN swaps' : swaps'[k].in # swaps'[k].out
  BY <1>1 DEF BooksInv
<1> QED BY <1>2, <1>5, <1>6, <1>7 DEF BooksInv

\* A step that only builds the transaction has no answer to keep.
LEMMA StillBuilding ==
  ASSUME TxInv, Building, phase' = phase, decoded' = decoded,
         WalletTyped', ListsTyped', InstructionsInv', BooksInv'
  PROVE  TxInv'
BY DEF TxInv, TypesInv, DecodedInv, Building

\* A plain call is an instruction.
LEMMA PlainIsPossible ==
  ASSUME NEW p \in {"SYSTEM", "TOKEN"} \union Claimable \union Routers
  PROVE  Plain(p) \in Possible
BY DEF Possible

\* A call of a pool is an instruction of a supported program.
LEMMA FormIsPossible ==
  ASSUME NEW form \in Forms \union Routed, NEW in \in Mint, NEW out \in Mint,
         NEW is_inner \in BOOLEAN, NEW ix, ix = FormInstruction(form, in, out, is_inner)
  PROVE  /\ ix \in Possible /\ ix.program = form.program
         /\ ix.program \in PoolPrograms /\ ix.program \in Programs
         /\ is_inner => ix.is_inner
<1>1. ix \in Possible
  BY DEF Possible
<1>2. ix.program = form.program /\ ix.is_inner = is_inner
  BY DEF FormInstruction, Instruction
<1>3. form.program \in PoolPrograms
  BY ProgramsAssumption
<1> QED BY <1>1, <1>2, <1>3 DEF PoolPrograms, Programs

\* A call of Pump.fun is an instruction of a supported program.
LEMMA CurveIsPossible ==
  ASSUME NEW op \in {"buy", "sell"}, NEW m \in Mint, NEW ix, ix = CurveInstruction(op, m)
  PROVE  ix \in Possible /\ ix.program \in Programs
<1>1. ix.program = "PUMPFUN"
  BY DEF CurveInstruction, Instruction
<1> QED BY <1>1 DEF Possible, Programs

\* What the types say of SOL moved beside the trades.
LEMMA MovedFields ==
  ASSUME WalletTyped
  PROVE  /\ moved.fees \in Nat /\ moved.deposits \in Int
         /\ moved.wrapped \in Nat /\ moved.unwrapped \in Nat
         /\ moved \in Moved
         /\ "WSOL" \in Mint /\ lamports \in Nat
BY DEF WalletTyped, Moved, Mint, Quotes

\* A tip is booked as a fee.
LEMMA PayTipKeeps == TxInv /\ PayTip => TxInv'
<1> SUFFICES ASSUME TxInv, PayTip PROVE TxInv'
  OBVIOUS
<1>1. Building /\ WalletTyped /\ ListsTyped /\ InstructionsInv /\ BooksInv
  BY DEF TxInv, TypesInv, PayTip
<1>2. /\ Tip \in Nat /\ lamports \in Nat /\ moved \in Moved /\ "WSOL" \in Mint
      /\ moved.fees \in Nat /\ moved.deposits \in Int
      /\ moved.wrapped \in Nat /\ moved.unwrapped \in Nat
  BY <1>1, MovedFields, TargetTxAssumption
<1>3. /\ lamports >= Tip /\ lamports' = lamports - Tip
      /\ moved' = [moved EXCEPT !.fees = @ + Tip]
      /\ start' = start /\ tokens' = tokens /\ vaults' = vaults /\ one_sided' = one_sided
      /\ swaps' = swaps /\ inner' = inner /\ phase' = phase /\ decoded' = decoded
      /\ outer' = Append(outer, Plain("SYSTEM"))
  BY DEF PayTip
<1>4. lamports' \in Nat
  BY <1>2, <1>3
<1>5. /\ moved' \in Moved /\ moved'.fees = moved.fees + Tip
      /\ moved'.deposits = moved.deposits
      /\ moved'.wrapped = moved.wrapped /\ moved'.unwrapped = moved.unwrapped
  <2>1. moved.fees + Tip \in Nat
    BY <1>2
  <2>2. moved' \in Moved
    BY <1>2, <1>3, <2>1 DEF Moved
  <2> QED BY <1>2, <1>3, <2>2 DEF Moved
<1>6. /\ Off' = Off /\ Wrapped("WSOL")' = Wrapped("WSOL")
      /\ \A m \in Mint \ {"WSOL"} : Wrapped(m)' = Wrapped(m)
  <2>1. /\ Off \in Int /\ Wrapped("WSOL") \in Int
        /\ Off' = Off + (lamports' - lamports) + (moved'.fees - moved.fees)
                      + (moved'.deposits - moved.deposits)
                      + (moved'.wrapped - moved.wrapped)
                      - (moved'.unwrapped - moved.unwrapped)
        /\ Wrapped("WSOL")' = Wrapped("WSOL") + (moved'.wrapped - moved.wrapped)
                                - (moved'.unwrapped - moved.unwrapped)
        /\ \A m \in Mint \ {"WSOL"} : Wrapped(m)' = Wrapped(m)
    BY <1>1, <1>3, <1>4, <1>5, OffMoves
  <2>2. lamports' - lamports = -Tip
    BY <1>2, <1>3
  <2>3. /\ moved'.fees - moved.fees = Tip /\ moved'.deposits - moved.deposits = 0
        /\ moved'.wrapped - moved.wrapped = 0 /\ moved'.unwrapped - moved.unwrapped = 0
    BY <1>2, <1>5
  <2> QED BY <1>2, <2>1, <2>2, <2>3
<1>7. WalletTyped'
  BY <1>1, <1>3, <1>4, <1>5 DEF WalletTyped
<1>8. ASSUME NEW m \in Mint PROVE Excess(m)' = Excess(m)
  BY <1>3, <1>6 DEF Excess, Change, Held
<1>9. BooksInv'
  BY <1>1, <1>2, <1>3, <1>6, <1>8, BooksKept
<1>10. ListsTyped' /\ InstructionsInv'
  BY <1>1, <1>3, NothingTraded, PlainIsPossible
<1> QED BY <1>1, <1>3, <1>7, <1>9, <1>10, StillBuilding

\* What is wrapped leaves native SOL and enters the account.
LEMMA WrapKeeps == ASSUME NEW n \in Wraps PROVE TxInv /\ Wrap(n) => TxInv'
<1> SUFFICES ASSUME TxInv, Wrap(n) PROVE TxInv'
  OBVIOUS
<1> DEFINE dep == Deposit("WSOL")
           h == Held("WSOL")
<1>1. Building /\ WalletTyped /\ ListsTyped /\ InstructionsInv /\ BooksInv
  BY DEF TxInv, TypesInv, Wrap
<1>2. /\ n \in Nat /\ dep \in Nat /\ h \in Nat /\ lamports \in Nat
      /\ moved \in Moved /\ "WSOL" \in Mint
      /\ moved.fees \in Nat /\ moved.deposits \in Int
      /\ moved.wrapped \in Nat /\ moved.unwrapped \in Nat
  BY <1>1, MovedFields, AccountFacts, TargetTxAssumption
<1>3. /\ lamports >= n + dep /\ lamports' = lamports - n - dep
      /\ tokens' = [tokens EXCEPT !["WSOL"] = h + n]
      /\ moved' = [moved EXCEPT !.wrapped = moved.wrapped + n,
                                !.deposits = moved.deposits + dep]
      /\ start' = start /\ vaults' = vaults /\ one_sided' = one_sided
      /\ swaps' = swaps /\ inner' = inner /\ phase' = phase /\ decoded' = decoded
      /\ outer' = Append(outer, Plain("SYSTEM"))
  BY DEF Wrap
<1> HIDE DEF dep
<1>4. lamports' \in Nat
  BY <1>2, <1>3
<1>5. /\ moved' \in Moved /\ moved'.fees = moved.fees
      /\ moved'.deposits = moved.deposits + dep
      /\ moved'.wrapped = moved.wrapped + n /\ moved'.unwrapped = moved.unwrapped
  <2>1. moved.wrapped + n \in Nat /\ moved.deposits + dep \in Int
    BY <1>2
  <2>2. moved' \in Moved
    BY <1>2, <1>3, <2>1 DEF Moved
  <2> QED BY <1>2, <1>3, <2>2 DEF Moved
<1>6. /\ Off' = Off /\ Wrapped("WSOL")' = Wrapped("WSOL") + n
      /\ \A m \in Mint \ {"WSOL"} : Wrapped(m)' = Wrapped(m)
  <2>1. /\ Off \in Int /\ Wrapped("WSOL") \in Int
        /\ Off' = Off + (lamports' - lamports) + (moved'.fees - moved.fees)
                      + (moved'.deposits - moved.deposits)
                      + (moved'.wrapped - moved.wrapped)
                      - (moved'.unwrapped - moved.unwrapped)
        /\ Wrapped("WSOL")' = Wrapped("WSOL") + (moved'.wrapped - moved.wrapped)
                                - (moved'.unwrapped - moved.unwrapped)
        /\ \A m \in Mint \ {"WSOL"} : Wrapped(m)' = Wrapped(m)
    BY <1>1, <1>3, <1>4, <1>5, OffMoves
  <2>2. lamports' - lamports = -n - dep
    BY <1>2, <1>3
  <2>3. /\ moved'.fees - moved.fees = 0 /\ moved'.deposits - moved.deposits = dep
        /\ moved'.wrapped - moved.wrapped = n /\ moved'.unwrapped - moved.unwrapped = 0
    BY <1>2, <1>5
  <2> QED BY <1>2, <2>1, <2>2, <2>3
<1>7. h + n \in Account /\ h + n # Absent
  BY <1>2 DEF Account, Absent
<1>8. /\ tokens' \in [Mint -> Account] /\ Held("WSOL")' = h + n
      /\ \A m \in Mint \ {"WSOL"} : tokens'[m] = tokens[m] /\ Held(m)' = Held(m)
  <2> HIDE DEF h
  <2> QED BY <1>1, <1>2, <1>3, <1>7, OneAccount
<1>9. WalletTyped'
  BY <1>1, <1>3, <1>4, <1>5, <1>8 DEF WalletTyped
<1>10. Excess("WSOL")' = Excess("WSOL")
  <2> DEFINE w == Wrapped("WSOL")
  <2>1. w \in Int
    BY <1>1, <1>2 DEF Wrapped
  <2>2. Wrapped("WSOL")' \in Int /\ h + n \in Int
    BY <1>2, <1>6, <2>1
  <2>3. /\ Excess("WSOL") \in Int
        /\ Excess("WSOL")' = Excess("WSOL") + ((h + n) - h) - (Wrapped("WSOL")' - w)
    <3> HIDE DEF w
    <3> QED BY <1>1, <1>2, <1>3, <1>8, <2>2, ExcessMoves DEF w
  <2> QED BY <1>2, <1>6, <2>1, <2>3
<1>11. ASSUME NEW m \in Mint \ {"WSOL"} PROVE Excess(m)' = Excess(m)
  BY <1>3, <1>6, <1>8 DEF Excess, Change
<1>12. BooksInv'
  BY <1>1, <1>2, <1>3, <1>6, <1>10, <1>11, BooksKept
<1>13. ListsTyped' /\ InstructionsInv'
  BY <1>1, <1>3, NothingTraded, PlainIsPossible
<1> QED BY <1>1, <1>3, <1>9, <1>12, <1>13, StillBuilding

\* What is unwrapped leaves the account and enters native SOL.
LEMMA UnwrapKeeps == TxInv /\ Unwrap => TxInv'
<1> SUFFICES ASSUME TxInv, Unwrap PROVE TxInv'
  OBVIOUS
<1> DEFINE v == tokens["WSOL"]
<1>1. Building /\ WalletTyped /\ ListsTyped /\ InstructionsInv /\ BooksInv
  BY DEF TxInv, TypesInv, Unwrap
<1>2. /\ lamports \in Nat /\ Rent \in Nat /\ "WSOL" \in Mint /\ v # Absent
      /\ v \in Nat /\ Held("WSOL") = v /\ moved \in Moved
      /\ moved.fees \in Nat /\ moved.deposits \in Int
      /\ moved.wrapped \in Nat /\ moved.unwrapped \in Nat
  BY <1>1, MovedFields, AccountFacts, TargetTxAssumption DEF Unwrap, Account
<1>3. /\ lamports' = lamports + v + Rent
      /\ tokens' = [tokens EXCEPT !["WSOL"] = Absent]
      /\ moved' = [moved EXCEPT !.unwrapped = moved.unwrapped + v,
                                !.deposits = moved.deposits - Rent]
      /\ start' = start /\ vaults' = vaults /\ one_sided' = one_sided
      /\ swaps' = swaps /\ inner' = inner /\ phase' = phase /\ decoded' = decoded
      /\ outer' = Append(outer, Plain("TOKEN"))
  BY DEF Unwrap
<1> HIDE DEF v
<1>4. lamports' \in Nat
  BY <1>2, <1>3
<1>5. /\ moved' \in Moved /\ moved'.fees = moved.fees
      /\ moved'.deposits = moved.deposits - Rent
      /\ moved'.wrapped = moved.wrapped /\ moved'.unwrapped = moved.unwrapped + v
  <2>1. moved.unwrapped + v \in Nat /\ moved.deposits - Rent \in Int
    BY <1>2
  <2>2. moved' \in Moved
    BY <1>2, <1>3, <2>1 DEF Moved
  <2> QED BY <1>2, <1>3, <2>2 DEF Moved
<1>6. /\ Off' = Off /\ Wrapped("WSOL")' = Wrapped("WSOL") - v
      /\ \A m \in Mint \ {"WSOL"} : Wrapped(m)' = Wrapped(m)
  <2>1. /\ Off \in Int /\ Wrapped("WSOL") \in Int
        /\ Off' = Off + (lamports' - lamports) + (moved'.fees - moved.fees)
                      + (moved'.deposits - moved.deposits)
                      + (moved'.wrapped - moved.wrapped)
                      - (moved'.unwrapped - moved.unwrapped)
        /\ Wrapped("WSOL")' = Wrapped("WSOL") + (moved'.wrapped - moved.wrapped)
                                - (moved'.unwrapped - moved.unwrapped)
        /\ \A m \in Mint \ {"WSOL"} : Wrapped(m)' = Wrapped(m)
    BY <1>1, <1>3, <1>4, <1>5, OffMoves
  <2>2. lamports' - lamports = v + Rent
    BY <1>2, <1>3
  <2>3. /\ moved'.fees - moved.fees = 0 /\ moved'.deposits - moved.deposits = -Rent
        /\ moved'.wrapped - moved.wrapped = 0 /\ moved'.unwrapped - moved.unwrapped = v
    BY <1>2, <1>5
  <2> QED BY <1>2, <2>1, <2>2, <2>3
<1>7. /\ tokens' \in [Mint -> Account] /\ Held("WSOL")' = 0
      /\ \A m \in Mint \ {"WSOL"} : tokens'[m] = tokens[m] /\ Held(m)' = Held(m)
  BY <1>1, <1>2, <1>3, OneAccount DEF Account
<1>8. WalletTyped'
  BY <1>1, <1>3, <1>4, <1>5, <1>7 DEF WalletTyped
<1>9. Excess("WSOL")' = Excess("WSOL")
  <2> DEFINE w == Wrapped("WSOL")
  <2>1. w \in Int
    BY <1>1, <1>2 DEF Wrapped
  <2>2. Wrapped("WSOL")' \in Int /\ Wrapped("WSOL")' = w - v
    BY <1>2, <1>6, <2>1
  <2>3. /\ Excess("WSOL") \in Int
        /\ Excess("WSOL")' = Excess("WSOL") + (0 - v) - (Wrapped("WSOL")' - w)
    BY <1>1, <1>2, <1>3, <1>7, <2>2, ExcessMoves
  <2> QED BY <1>2, <2>1, <2>2, <2>3
<1>10. ASSUME NEW m \in Mint \ {"WSOL"} PROVE Excess(m)' = Excess(m)
  BY <1>3, <1>6, <1>7 DEF Excess, Change
<1>11. BooksInv'
  BY <1>1, <1>2, <1>3, <1>6, <1>9, <1>10, BooksKept
<1>12. ListsTyped' /\ InstructionsInv'
  BY <1>1, <1>3, NothingTraded, PlainIsPossible
<1> QED BY <1>1, <1>3, <1>8, <1>11, <1>12, StillBuilding

\* A step that pays x lamports and a deposit, and books the deposit.
LEMMA DepositPaid ==
  ASSUME WalletTyped, start' = start, NEW dep \in Nat, NEW x \in Nat, lamports >= x + dep,
         lamports' = lamports - x - dep,
         moved' = [moved EXCEPT !.deposits = moved.deposits + dep]
  PROVE  /\ lamports' \in Nat /\ moved' \in Moved
         /\ Off \in Int /\ Off' = Off - x
         /\ \A m \in Mint : Wrapped(m)' = Wrapped(m)
<1>1. /\ lamports \in Nat /\ moved \in Moved /\ "WSOL" \in Mint
      /\ moved.fees \in Nat /\ moved.deposits \in Int
      /\ moved.wrapped \in Nat /\ moved.unwrapped \in Nat
  BY MovedFields
<1>2. lamports' \in Nat /\ lamports' - lamports = -x - dep
  BY <1>1
<1>3. moved.deposits + dep \in Int
  BY <1>1
<1>4. moved' \in Moved
  BY <1>1, <1>3 DEF Moved
<1>5. /\ moved'.fees = moved.fees /\ moved'.deposits = moved.deposits + dep
      /\ moved'.wrapped = moved.wrapped /\ moved'.unwrapped = moved.unwrapped
  BY <1>1, <1>4 DEF Moved
<1>6. /\ moved'.fees - moved.fees = 0 /\ moved'.deposits - moved.deposits = dep
      /\ moved'.wrapped - moved.wrapped = 0 /\ moved'.unwrapped - moved.unwrapped = 0
  BY <1>1, <1>5
<1>7. /\ Off \in Int /\ Wrapped("WSOL") \in Int
      /\ Off' = Off + (lamports' - lamports) + (moved'.fees - moved.fees)
                    + (moved'.deposits - moved.deposits)
                    + (moved'.wrapped - moved.wrapped)
                    - (moved'.unwrapped - moved.unwrapped)
      /\ Wrapped("WSOL")' = Wrapped("WSOL") + (moved'.wrapped - moved.wrapped)
                              - (moved'.unwrapped - moved.unwrapped)
      /\ \A m \in Mint \ {"WSOL"} : Wrapped(m)' = Wrapped(m)
  BY <1>2, <1>4, OffMoves
<1>8. Off' = Off - x /\ Wrapped("WSOL")' = Wrapped("WSOL")
  BY <1>1, <1>2, <1>6, <1>7
<1> QED BY <1>2, <1>4, <1>7, <1>8

\* What can be claimed or supplied is a mint.
LEMMA StakesAreMints == Stakes \subseteq Mint
BY DEF Stakes, Mint, Quotes

\* A claim moves one mint.
LEMMA ClaimKeeps == ASSUME NEW m \in Stakes PROVE TxInv /\ Claim(m) => TxInv'
<1> SUFFICES ASSUME TxInv, Claim(m) PROVE TxInv'
  OBVIOUS
<1> DEFINE dep == Deposit(m)
           v == Held(m) + Yield
<1>1. Building /\ WalletTyped /\ ListsTyped /\ InstructionsInv /\ BooksInv
  BY DEF TxInv, TypesInv, Claim
<1>2. m \in Mint
  BY StakesAreMints
<1>3. /\ lamports \in Nat /\ dep \in Nat /\ vaults[m] \in Nat /\ Yield \in Nat
      /\ Held(m) \in Nat /\ v \in Nat /\ moved.deposits \in Int
  BY <1>1, <1>2, MovedFields, AccountFacts, TargetTxAssumption
<1> HIDE DEF dep, v
<1>4. /\ lamports >= dep /\ lamports' = lamports - dep /\ vaults[m] >= Yield
      /\ tokens' = [tokens EXCEPT ![m] = v]
      /\ vaults' = [vaults EXCEPT ![m] = vaults[m] - Yield]
      /\ moved' = [moved EXCEPT !.deposits = moved.deposits + dep]
      /\ start' = start /\ ~one_sided /\ one_sided'
      /\ swaps' = swaps /\ inner' = inner /\ phase' = phase /\ decoded' = decoded
  BY DEF Claim, dep, v
<1>5. PICK program \in Claimable : outer' = Append(outer, Plain(program))
  BY DEF Claim
<1>6. /\ lamports' \in Nat /\ moved' \in Moved /\ Off' = Off
      /\ \A n \in Mint : Wrapped(n)' = Wrapped(n)
  <2>1. lamports >= 0 + dep /\ lamports' = lamports - 0 - dep
    BY <1>3, <1>4
  <2>2. /\ lamports' \in Nat /\ moved' \in Moved /\ Off \in Int /\ Off' = Off - 0
        /\ \A n \in Mint : Wrapped(n)' = Wrapped(n)
    BY <1>1, <1>3, <1>4, <2>1, DepositPaid
  <2> QED BY <2>2
<1>7. v \in Account /\ vaults[m] - Yield \in Nat
  BY <1>3, <1>4 DEF Account
<1>8. /\ tokens' \in [Mint -> Account]
      /\ \A n \in Mint \ {m} : Held(n)' = Held(n)
  BY <1>1, <1>2, <1>4, <1>7, OneAccount
<1>9. WalletTyped'
  BY <1>1, <1>2, <1>4, <1>6, <1>7, <1>8 DEF WalletTyped
<1>10. ASSUME NEW n \in Mint \ {m} PROVE Excess(n)' = Excess(n)
  BY <1>4, <1>6, <1>8 DEF Excess, Change
<1>11. BooksInv'
  BY <1>1, <1>2, <1>4, <1>6, <1>10, BooksKept
<1>12. ListsTyped' /\ InstructionsInv'
  BY <1>1, <1>4, <1>5, NothingTraded, PlainIsPossible
<1> QED BY <1>1, <1>4, <1>9, <1>11, <1>12, StillBuilding

\* A supply moves one mint.
LEMMA SupplyKeeps == ASSUME NEW m \in Stakes PROVE TxInv /\ Supply(m) => TxInv'
<1> SUFFICES ASSUME TxInv, Supply(m) PROVE TxInv'
  OBVIOUS
<1> DEFINE v == tokens[m] - Yield
<1>1. Building /\ WalletTyped /\ ListsTyped /\ InstructionsInv /\ BooksInv
  BY DEF TxInv, TypesInv, Supply
<1>2. m \in Mint
  BY StakesAreMints
<1>3. Yield \in Nat /\ Yield > 0 /\ vaults[m] \in Nat /\ Held(m) \in Nat
  BY <1>1, <1>2, AccountFacts, TargetTxAssumption
<1>4. Held(m) >= Yield /\ tokens[m] # Absent /\ tokens[m] = Held(m)
  BY <1>1, <1>2, <1>3, AccountFacts DEF Supply
<1>5. v \in Account /\ v \in Nat /\ vaults[m] + Yield \in Nat
  BY <1>3, <1>4 DEF Account
<1> HIDE DEF v
<1>6. /\ tokens' = [tokens EXCEPT ![m] = v]
      /\ vaults' = [vaults EXCEPT ![m] = vaults[m] + Yield]
      /\ lamports' = lamports /\ moved' = moved
      /\ start' = start /\ ~one_sided /\ one_sided'
      /\ swaps' = swaps /\ inner' = inner /\ phase' = phase /\ decoded' = decoded
  BY DEF Supply, v
<1>7. PICK program \in Claimable : outer' = Append(outer, Plain(program))
  BY DEF Supply
<1>8. Off' = Off /\ \A n \in Mint : Wrapped(n)' = Wrapped(n)
  BY <1>6 DEF Off, Around, Wrapped
<1>9. /\ tokens' \in [Mint -> Account]
      /\ \A n \in Mint \ {m} : Held(n)' = Held(n)
  BY <1>1, <1>2, <1>5, <1>6, OneAccount
<1>10. WalletTyped'
  BY <1>1, <1>2, <1>5, <1>6, <1>9 DEF WalletTyped
<1>11. ASSUME NEW n \in Mint \ {m} PROVE Excess(n)' = Excess(n)
  BY <1>6, <1>8, <1>9 DEF Excess, Change
<1>12. BooksInv'
  BY <1>1, <1>2, <1>6, <1>8, <1>11, BooksKept
<1>13. ListsTyped' /\ InstructionsInv'
  BY <1>1, <1>6, <1>7, NothingTraded, PlainIsPossible
<1> QED BY <1>1, <1>6, <1>10, <1>12, <1>13, StillBuilding

\* The fields of a trade.
LEMMA TradeFacts ==
  ASSUME NEW t \in Trades
  PROVE  /\ t[1] \in Mint /\ t[3] \in Mint /\ t[1] # t[3]
         /\ t[2] \in Nat \ {0} /\ t[4] \in Nat \ {0}
BY TradesAssumption

\* A swap between token accounts moves its two mints by its two amounts.
LEMMA Exchanged ==
  ASSUME TxInv, Building, NEW in \in Mint, NEW out \in Mint, in # out,
         NEW a \in Nat \ {0}, NEW b \in Nat \ {0}, NEW via \in Via \ {"PUMPFUN"},
         Exchange(in, a, out, b), Traded(in, a, out, b, via),
         start' = start, one_sided' = one_sided
  PROVE  WalletTyped' /\ BooksInv'
<1> DEFINE dep == Deposit(out)
           v == Held(in) - a
           w == Held(out) + b
           t == [in |-> in, spent |-> a, out |-> out, got |-> b, via |-> via]
<1>1. WalletTyped /\ ListsTyped /\ BooksInv
  BY DEF TxInv, TypesInv
<1>2. /\ lamports \in Nat /\ dep \in Nat /\ moved.deposits \in Int
      /\ tokens \in [Mint -> Account]
      /\ Held(in) \in Nat /\ Held(out) \in Nat
  BY <1>1, MovedFields, AccountFacts DEF WalletTyped
<1>3. /\ lamports >= dep /\ lamports' = lamports - dep /\ Held(in) >= a
      /\ vaults[out] >= b
      /\ tokens' = [tokens EXCEPT ![in] = v, ![out] = w]
      /\ vaults' = [vaults EXCEPT ![in] = @ + a, ![out] = @ - b]
      /\ moved' = [moved EXCEPT !.deposits = moved.deposits + dep]
  BY DEF Exchange
<1> HIDE DEF dep
<1>4. v \in Nat /\ w \in Nat /\ v # Absent /\ w # Absent
  BY <1>2, <1>3 DEF Absent
<1>5. /\ lamports' \in Nat /\ moved' \in Moved /\ Off' = Off
      /\ \A n \in Mint : Wrapped(n)' = Wrapped(n)
  <2>1. lamports >= 0 + dep /\ lamports' = lamports - 0 - dep
    BY <1>2, <1>3
  <2>2. /\ lamports' \in Nat /\ moved' \in Moved /\ Off \in Int /\ Off' = Off - 0
        /\ \A n \in Mint : Wrapped(n)' = Wrapped(n)
    BY <1>1, <1>2, <1>3, <2>1, DepositPaid
  <2> QED BY <2>2
<1>6. vaults' \in [Mint -> Nat]
  BY <1>1, <1>3, TwoVaults
<1>7. /\ tokens' \in [Mint -> Account] /\ Held(in)' = v /\ Held(out)' = w
      /\ \A n \in Mint \ {in, out} : Held(n)' = Held(n)
  <2> HIDE DEF v, w
  <2>1. /\ tokens'[in] = v /\ tokens'[out] = w
        /\ \A n \in Mint \ {in, out} : tokens'[n] = tokens[n]
        /\ tokens' \in [Mint -> Account]
    BY <1>2, <1>3, <1>4 DEF Account
  <2> QED BY <1>4, <2>1 DEF Held
<1>8. WalletTyped'
  BY <1>1, <1>5, <1>6, <1>7 DEF WalletTyped
<1>9. t \in TradeSet /\ t.in = in /\ t.out = out /\ t.spent = a /\ t.got = b /\ t.via = via
  BY DEF TradeSet
<1>10. swaps' = Append(swaps, t)
  BY DEF Traded
<1> HIDE DEF t
<1>11. ASSUME NEW m \in Mint PROVE Excess(m)' = Excess(m) + Part(t, m)
  <2>1. CASE m \notin {in, out}
    <3>1. Excess(m)' = Excess(m) /\ Part(t, m) = 0
      BY <1>5, <1>7, <1>9, <2>1 DEF Excess, Change, Part
    <3>2. Excess(m) \in Int
      BY <1>1, <1>2, AccountFacts, MovedFields DEF Excess, Wrapped
    <3> QED BY <3>1, <3>2
  <2>2. Wrapped(m) \in Int /\ Wrapped(m)' = Wrapped(m)
    BY <1>1, <1>5, MovedFields DEF Wrapped
  <2>3. CASE m = in
    <3>1. /\ Excess(m) \in Int
          /\ Excess(m)' = Excess(m) + (v - Held(m)) - (Wrapped(m)' - Wrapped(m))
      <4> HIDE DEF v
      <4> QED BY <1>1, <1>4, <1>7, <2>2, <2>3, ExcessMoves
    <3>2. Part(t, m) = -a
      BY <1>9, <2>3 DEF Part
    <3> QED BY <1>2, <2>2, <2>3, <3>1, <3>2
  <2>4. CASE m = out
    <3>1. /\ Excess(m) \in Int
          /\ Excess(m)' = Excess(m) + (w - Held(m)) - (Wrapped(m)' - Wrapped(m))
      <4> HIDE DEF w
      <4> QED BY <1>1, <1>4, <1>7, <2>2, <2>4, ExcessMoves
    <3>2. Part(t, m) = b
      BY <1>9, <2>4 DEF Part
    <3> QED BY <1>2, <2>2, <2>4, <3>1, <3>2
  <2> QED BY <2>1, <2>3, <2>4
<1>12. Off' = Off + Native(t)
  <2>1. Native(t) = 0
    BY <1>9 DEF Native
  <2>2. Off \in Int
    BY <1>1, MovedFields DEF Off, Around, WalletTyped
  <2> QED BY <1>5, <2>1, <2>2
<1>13. BooksInv'
  BY <1>1, <1>9, <1>10, <1>11, <1>12, BooksTraded
<1> QED BY <1>8, <1>13

\* A pool called at top level explains its trade.
LEMMA PoolSwapKeeps ==
  ASSUME NEW t \in Trades, NEW form \in Forms
  PROVE  TxInv /\ PoolSwap(form, t[1], t[2], t[3], t[4]) => TxInv'
<1> SUFFICES ASSUME TxInv, PoolSwap(form, t[1], t[2], t[3], t[4]) PROVE TxInv'
  OBVIOUS
<1> DEFINE in == t[1]
           out == t[3]
           ix == FormInstruction(form, in, out, FALSE)
           s == [in |-> in, spent |-> t[2], out |-> out, got |-> t[4], via |-> form.program]
<1>1. Building /\ ListsTyped /\ InstructionsInv
  BY DEF TxInv, TypesInv, PoolSwap
<1>2. /\ in \in Mint /\ out \in Mint /\ in # out
      /\ t[2] \in Nat \ {0} /\ t[4] \in Nat \ {0}
  BY TradeFacts
<1>3. form.program \in PoolPrograms /\ form.program \in Via \ {"PUMPFUN"}
  BY ProgramsAssumption DEF Via, PoolPrograms
<1>4. /\ Traded(in, t[2], out, t[4], form.program) /\ Exchange(in, t[2], out, t[4])
      /\ outer' = Append(outer, ix)
      /\ start' = start /\ one_sided' = one_sided
      /\ inner' = inner /\ phase' = phase /\ decoded' = decoded
  BY DEF PoolSwap
<1>5. WalletTyped' /\ BooksInv'
  BY <1>1, <1>2, <1>3, <1>4, Exchanged
<1>6. s \in TradeSet /\ MadeBy(s, ix)
  BY <1>2, <1>3 DEF TradeSet, MadeBy
<1>7. Len(swaps) < MaxSwaps /\ swaps' = Append(swaps, s)
  BY <1>4 DEF Traded
<1>8. ix \in Possible /\ ix.program \in Programs
  BY <1>2, FormIsPossible
<1>9. ListsTyped' /\ InstructionsInv'
  <2> HIDE DEF ix, s
  <2> QED BY <1>1, <1>4, <1>6, <1>7, <1>8, SomethingTraded
<1> QED BY <1>1, <1>4, <1>5, <1>9, StillBuilding

\* A router explains the trade of the pool it calls.
LEMMA RoutedSwapKeeps ==
  ASSUME NEW t \in Trades, NEW router \in Routers, NEW form \in Routed
  PROVE  TxInv /\ RoutedSwap(router, form, t[1], t[2], t[3], t[4]) => TxInv'
<1> SUFFICES ASSUME TxInv, RoutedSwap(router, form, t[1], t[2], t[3], t[4]) PROVE TxInv'
  OBVIOUS
<1> DEFINE in == t[1]
           out == t[3]
           ix == Plain(router)
           jx == FormInstruction(form, in, out, TRUE)
           s == [in |-> in, spent |-> t[2], out |-> out, got |-> t[4], via |-> router]
<1>1. Building /\ ListsTyped /\ InstructionsInv
  BY DEF TxInv, TypesInv, RoutedSwap
<1>2. /\ in \in Mint /\ out \in Mint /\ in # out
      /\ t[2] \in Nat \ {0} /\ t[4] \in Nat \ {0}
  BY TradeFacts
<1>3. router \in Via \ {"PUMPFUN"}
  BY ProgramsAssumption DEF Via
<1>4. /\ Traded(in, t[2], out, t[4], router) /\ Exchange(in, t[2], out, t[4])
      /\ outer' = Append(outer, ix) /\ inner' = Append(inner, jx)
      /\ start' = start /\ one_sided' = one_sided
      /\ phase' = phase /\ decoded' = decoded
  BY DEF RoutedSwap
<1>5. WalletTyped' /\ BooksInv'
  BY <1>1, <1>2, <1>3, <1>4, Exchanged
<1>6. s \in TradeSet /\ MadeBy(s, ix) /\ s.via # "PUMPFUN"
  BY <1>2, <1>3 DEF TradeSet, MadeBy
<1>7. Len(swaps) < MaxSwaps /\ swaps' = Append(swaps, s)
  BY <1>4 DEF Traded
<1>8. ix \in Possible
  BY PlainIsPossible
<1>9. jx \in Possible /\ jx.is_inner /\ jx.program \in PoolPrograms
  BY <1>2, FormIsPossible
<1>10. ListsTyped' /\ InstructionsInv'
  <2> HIDE DEF ix, jx, s
  <2> QED BY <1>1, <1>4, <1>6, <1>7, <1>8, <1>9, SomethingTraded
<1> QED BY <1>1, <1>4, <1>5, <1>10, StillBuilding

\* A Pump.fun buy takes its SOL from the native balance.
LEMMA CurveBuyKeeps ==
  ASSUME NEW a \in Nat \ {0}, NEW mint \in Tokens, NEW b \in Nat \ {0}
  PROVE  TxInv /\ CurveBuy(a, mint, b) => TxInv'
<1> SUFFICES ASSUME TxInv, CurveBuy(a, mint, b) PROVE TxInv'
  OBVIOUS
<1> DEFINE ix == CurveInstruction("buy", mint)
           t == [in |-> "WSOL", spent |-> a, out |-> mint, got |-> b, via |-> "PUMPFUN"]
           dep == Deposit(mint)
           v == Held(mint) + b
<1>1. Building /\ WalletTyped /\ ListsTyped /\ InstructionsInv /\ BooksInv
  BY DEF TxInv, TypesInv, CurveBuy
<1>2. mint \in Mint /\ "WSOL" \in Mint /\ mint # "WSOL"
  BY TokensAssumption DEF Mint, Quotes
<1>3. /\ lamports \in Nat /\ dep \in Nat /\ Held(mint) \in Nat /\ moved.deposits \in Int
  BY <1>1, <1>2, MovedFields, AccountFacts
<1>4. /\ vaults[mint] >= b /\ lamports >= a + dep /\ lamports' = lamports - a - dep
      /\ tokens' = [tokens EXCEPT ![mint] = v]
      /\ vaults' = [vaults EXCEPT !["WSOL"] = @ + a, ![mint] = @ - b]
      /\ moved' = [moved EXCEPT !.deposits = moved.deposits + dep]
      /\ Len(swaps) < MaxSwaps /\ swaps' = Append(swaps, t)
      /\ outer' = Append(outer, ix)
      /\ start' = start /\ one_sided' = one_sided
      /\ inner' = inner /\ phase' = phase /\ decoded' = decoded
  BY DEF CurveBuy, Traded
<1>5. t \in TradeSet /\ MadeBy(t, ix)
  BY <1>2 DEF TradeSet, Via, MadeBy
<1>6. ix \in Possible /\ ix.program \in Programs
  BY <1>2, CurveIsPossible
<1>7. /\ t.in = "WSOL" /\ t.out = mint /\ t.spent = a /\ t.got = b /\ t.via = "PUMPFUN"
  OBVIOUS
<1> HIDE DEF ix, t, dep
<1>8. v \in Nat /\ v # Absent /\ v \in Account
  BY <1>3 DEF Absent, Account
<1>9. /\ lamports' \in Nat /\ moved' \in Moved /\ Off \in Int /\ Off' = Off - a
      /\ \A n \in Mint : Wrapped(n)' = Wrapped(n)
  BY <1>1, <1>3, <1>4, DepositPaid
<1>10. vaults' \in [Mint -> Nat]
  BY <1>1, <1>2, <1>4, TwoVaults
<1>11. /\ tokens' \in [Mint -> Account] /\ Held(mint)' = v
       /\ \A n \in Mint \ {mint} : Held(n)' = Held(n)
  <2> HIDE DEF v
  <2> QED BY <1>1, <1>2, <1>4, <1>8, OneAccount
<1>12. WalletTyped'
  BY <1>1, <1>4, <1>9, <1>10, <1>11 DEF WalletTyped
<1>13. ASSUME NEW m \in Mint PROVE Excess(m)' = Excess(m) + Part(t, m)
  <2>1. CASE m # mint
    <3>1. Excess(m)' = Excess(m) /\ Part(t, m) = 0
      BY <1>4, <1>7, <1>9, <1>11, <2>1 DEF Excess, Change, Part
    <3>2. Excess(m) \in Int
      BY <1>1, AccountFacts, MovedFields DEF Excess, Wrapped
    <3> QED BY <3>1, <3>2
  <2>2. CASE m = mint
    <3>1. Wrapped(m) \in Int /\ Wrapped(m)' = Wrapped(m)
      BY <1>1, <1>9, MovedFields DEF Wrapped
    <3>2. /\ Excess(m) \in Int
          /\ Excess(m)' = Excess(m) + (v - Held(m)) - (Wrapped(m)' - Wrapped(m))
      <4> HIDE DEF v
      <4> QED BY <1>1, <1>4, <1>8, <1>11, <2>2, <3>1, ExcessMoves
    <3>3. Part(t, m) = b
      BY <1>2, <1>7, <2>2 DEF Part
    <3> QED BY <1>3, <2>2, <3>1, <3>2, <3>3
  <2> QED BY <2>1, <2>2
<1>14. Off' = Off + Native(t)
  <2>1. Native(t) = -a
    BY <1>7 DEF Native
  <2> QED BY <1>9, <2>1
<1>15. BooksInv'
  BY <1>1, <1>2, <1>4, <1>5, <1>7, <1>13, <1>14, BooksTraded
<1>16. ListsTyped' /\ InstructionsInv'
  BY <1>1, <1>4, <1>5, <1>6, SomethingTraded
<1> QED BY <1>1, <1>4, <1>12, <1>15, <1>16, StillBuilding

\* A Pump.fun sell pays its SOL to the native balance.
LEMMA CurveSellKeeps ==
  ASSUME NEW mint \in Tokens, NEW a \in Nat \ {0}, NEW b \in Nat \ {0}
  PROVE  TxInv /\ CurveSell(mint, a, b) => TxInv'
<1> SUFFICES ASSUME TxInv, CurveSell(mint, a, b) PROVE TxInv'
  OBVIOUS
<1> DEFINE ix == CurveInstruction("sell", mint)
           t == [in |-> mint, spent |-> a, out |-> "WSOL", got |-> b, via |-> "PUMPFUN"]
           v == tokens[mint] - a
<1>1. Building /\ WalletTyped /\ ListsTyped /\ InstructionsInv /\ BooksInv
  BY DEF TxInv, TypesInv, CurveSell
<1>2. mint \in Mint /\ "WSOL" \in Mint /\ mint # "WSOL"
  BY TokensAssumption DEF Mint, Quotes
<1>3. /\ lamports \in Nat /\ moved \in Moved /\ Held(mint) \in Nat
  BY <1>1, <1>2, MovedFields, AccountFacts
<1>4. /\ Held(mint) >= a /\ vaults["WSOL"] >= b /\ lamports' = lamports + b
      /\ tokens' = [tokens EXCEPT ![mint] = v]
      /\ vaults' = [vaults EXCEPT !["WSOL"] = @ - b, ![mint] = @ + a]
      /\ moved' = moved
      /\ Len(swaps) < MaxSwaps /\ swaps' = Append(swaps, t)
      /\ outer' = Append(outer, ix)
      /\ start' = start /\ one_sided' = one_sided
      /\ inner' = inner /\ phase' = phase /\ decoded' = decoded
  BY DEF CurveSell, Traded
<1>5. t \in TradeSet /\ MadeBy(t, ix)
  BY <1>2 DEF TradeSet, Via, MadeBy
<1>6. ix \in Possible /\ ix.program \in Programs
  BY <1>2, CurveIsPossible
<1>7. /\ t.in = mint /\ t.out = "WSOL" /\ t.spent = a /\ t.got = b /\ t.via = "PUMPFUN"
  OBVIOUS
<1> HIDE DEF ix, t
<1>8. tokens[mint] = Held(mint) /\ v \in Nat /\ v # Absent /\ v \in Account
  <2>1. tokens[mint] = Held(mint)
    BY <1>1, <1>2, <1>3, <1>4, AccountFacts
  <2> QED BY <1>3, <1>4, <2>1 DEF Absent, Account
<1>9. /\ lamports' \in Nat /\ Off \in Int /\ Off' = Off + b
      /\ \A n \in Mint : Wrapped(n)' = Wrapped(n)
  <2>1. lamports' \in Nat /\ lamports' - lamports = b
    BY <1>3, <1>4
  <2>2. /\ moved.fees \in Nat /\ moved.deposits \in Int
        /\ moved.wrapped \in Nat /\ moved.unwrapped \in Nat
    BY <1>1, MovedFields
  <2>3. /\ Off \in Int
        /\ Off' = Off + (lamports' - lamports) + (moved.fees - moved.fees)
                      + (moved.deposits - moved.deposits)
                      + (moved.wrapped - moved.wrapped)
                      - (moved.unwrapped - moved.unwrapped)
    BY <1>1, <1>3, <1>4, <2>1, OffMoves
  <2>4. Off' = Off + b
    BY <2>1, <2>2, <2>3
  <2> QED BY <1>4, <2>1, <2>3, <2>4 DEF Wrapped
<1>10. vaults' \in [Mint -> Nat]
  <2>1. vaults' = [vaults EXCEPT ![mint] = @ + a, !["WSOL"] = @ - b]
    BY <1>1, <1>2, <1>4 DEF WalletTyped
  <2> QED BY <1>1, <1>2, <1>4, <2>1, TwoVaults
<1>11. /\ tokens' \in [Mint -> Account] /\ Held(mint)' = v
       /\ \A n \in Mint \ {mint} : Held(n)' = Held(n)
  <2> HIDE DEF v
  <2> QED BY <1>1, <1>2, <1>4, <1>8, OneAccount
<1>12. WalletTyped'
  BY <1>1, <1>4, <1>9, <1>10, <1>11 DEF WalletTyped
<1>13. ASSUME NEW m \in Mint PROVE Excess(m)' = Excess(m) + Part(t, m)
  <2>1. CASE m # mint
    <3>1. Excess(m)' = Excess(m) /\ Part(t, m) = 0
      BY <1>4, <1>7, <1>9, <1>11, <2>1 DEF Excess, Change, Part
    <3>2. Excess(m) \in Int
      BY <1>1, AccountFacts, MovedFields DEF Excess, Wrapped
    <3> QED BY <3>1, <3>2
  <2>2. CASE m = mint
    <3>1. Wrapped(m) \in Int /\ Wrapped(m)' = Wrapped(m)
      BY <1>1, <1>9, MovedFields DEF Wrapped
    <3>2. /\ Excess(m) \in Int
          /\ Excess(m)' = Excess(m) + (v - Held(m)) - (Wrapped(m)' - Wrapped(m))
      <4> HIDE DEF v
      <4> QED BY <1>1, <1>4, <1>8, <1>11, <2>2, <3>1, ExcessMoves
    <3>3. Part(t, m) = -a
      BY <1>2, <1>7, <2>2 DEF Part
    <3> QED BY <1>3, <1>8, <2>2, <3>1, <3>2, <3>3
  <2> QED BY <2>1, <2>2
<1>14. Off' = Off + Native(t)
  <2>1. Native(t) = b
    BY <1>2, <1>7 DEF Native
  <2> QED BY <1>9, <2>1
<1>15. BooksInv'
  BY <1>1, <1>2, <1>4, <1>5, <1>7, <1>13, <1>14, BooksTraded
<1>16. ListsTyped' /\ InstructionsInv'
  BY <1>1, <1>4, <1>5, <1>6, SomethingTraded
<1> QED BY <1>1, <1>4, <1>12, <1>15, <1>16, StillBuilding

\* Handing the transaction over moves nothing.
LEMMA FrameKeeps == TxInv /\ (HandleTx \/ SkipTx \/ UNCHANGED txvars) => TxInv'
<1> SUFFICES ASSUME TxInv, HandleTx \/ SkipTx \/ UNCHANGED txvars PROVE TxInv'
  OBVIOUS
<1>1. /\ UNCHANGED <<start, lamports, tokens, vaults, outer, inner, swaps, one_sided, moved>>
      /\ \/ phase' = "decoded" /\ decoded' = DecodeTransaction(Context)
         \/ phase = "building" /\ phase' = "skipped" /\ decoded' = decoded
         \/ phase' = phase /\ decoded' = decoded
  BY DEF HandleTx, SkipTx, txvars
<1>2. WalletTyped' /\ ListsTyped'
  BY <1>1 DEF TxInv, TypesInv, WalletTyped, ListsTyped
<1>3. InstructionsInv'
  BY <1>1 DEF TxInv, InstructionsInv, Explained
<1>4. BooksInv'
  <2>1. Off' = Off /\ (Single' <=> Single)
    BY <1>1 DEF Off, Around, Single
  <2>2. ASSUME NEW m \in Mint PROVE Excess(m)' = Excess(m)
    BY <1>1 DEF Excess, Change, Held, Wrapped
  <2> QED BY <1>1, <2>1, <2>2 DEF TxInv, BooksInv
<1>5. Context' = Context
  BY <1>1 DEF Context
<1>6. DecodedInv'
  BY <1>1, <1>5 DEF TxInv, DecodedInv
<1>7. TypesInv'
  BY <1>1, <1>2 DEF TxInv, TypesInv
<1> QED BY <1>3, <1>4, <1>6, <1>7 DEF TxInv

\* A transaction starts with balanced books: only its fee was taken.
LEMMA TxInitHolds == TxInit => TxInv
<1> SUFFICES ASSUME TxInit PROVE TxInv
  OBVIOUS
<1>1. PICK fee \in Fees :
        /\ lamports = Lamports0 - fee
        /\ moved = [fees |-> fee, deposits |-> 0, wrapped |-> 0, unwrapped |-> 0]
  BY DEF TxInit
<1>2. /\ Lamports0 \in Nat /\ fee \in Nat /\ fee <= Lamports0
      /\ MaxInstructions \in Nat /\ MaxSwaps \in Nat
  BY TargetTxAssumption
<1>3. lamports \in Nat
  BY <1>1, <1>2
<1>4. tokens \in [Mint -> Account] /\ vaults \in [Mint -> Nat] /\ one_sided \in BOOLEAN
  BY TargetTxAssumption DEF TxInit, Account, Pooled
<1>5. start \in [lamports : Nat, tokens : [Mint -> Account]]
  BY <1>2, <1>4 DEF TxInit
<1>6. moved \in Moved
  BY <1>1, <1>2 DEF Moved
<1>7. WalletTyped
  BY <1>3, <1>4, <1>5, <1>6 DEF WalletTyped
<1>8. outer = <<>> /\ inner = <<>> /\ swaps = <<>> /\ ~one_sided /\ decoded = NoSwap
      /\ phase = "building"
  BY DEF TxInit
<1>9. ListsTyped
  <2>1. Len(<<>>) = 0 /\ <<>> \in Seq(Possible) /\ <<>> \in Seq(TradeSet)
    BY EmptySeq
  <2> QED BY <1>2, <1>8, <2>1 DEF ListsTyped
<1>10. InstructionsInv
  BY <1>8 DEF InstructionsInv
<1>11. Off = 0
  BY <1>1, <1>2 DEF TxInit, Off, Around
<1>12. ASSUME NEW m \in Mint PROVE Excess(m) = 0
  <2>1. Change(m) = 0 /\ Wrapped(m) = 0
    <3>1. Held(m) \in Int
      BY <1>7, AccountFacts
    <3>2. Change(m) = Held(m) - Held(m)
      BY DEF Change, Held, TxInit
    <3> QED BY <1>1, <3>1, <3>2 DEF Wrapped
  <2> QED BY <2>1 DEF Excess
<1>13. BooksInv
  <2>1. "WSOL" \in Mint /\ Len(swaps) = 0 /\ DOMAIN swaps = {}
    BY <1>8, EmptySeq DEF Mint, Quotes
  <2> QED BY <1>8, <1>11, <1>12, <2>1 DEF BooksInv, Single
<1> QED BY <1>7, <1>8, <1>9, <1>10, <1>13 DEF TxInv, TypesInv, DecodedInv

\* The invariant is inductive: every step of a transaction keeps its books.
THEOREM StepKeepsBooks == TxInv /\ [TxNext]_txvars => TxInv'
<1> SUFFICES ASSUME TxInv, [TxNext]_txvars PROVE TxInv'
  OBVIOUS
<1>1. CASE PayTip
  BY <1>1, PayTipKeeps
<1>2. CASE Unwrap
  BY <1>2, UnwrapKeeps
<1>3. CASE HandleTx \/ SkipTx \/ UNCHANGED txvars
  BY <1>3, FrameKeeps
<1>4. CASE \E n \in Wraps : Wrap(n)
  BY <1>4, WrapKeeps
<1>5. CASE \E m \in Stakes : Claim(m) \/ Supply(m)
  BY <1>5, ClaimKeeps, SupplyKeeps
<1>6. CASE SwapStep
  <2>1. PICK t \in Trades :
          \/ \E form \in Forms : PoolSwap(form, t[1], t[2], t[3], t[4])
          \/ \E router \in Routers, form \in Routed :
               RoutedSwap(router, form, t[1], t[2], t[3], t[4])
          \/ t[1] = "WSOL" /\ t[3] \in Tokens /\ CurveBuy(t[2], t[3], t[4])
          \/ t[3] = "WSOL" /\ t[1] \in Tokens /\ CurveSell(t[1], t[2], t[4])
    BY <1>6 DEF SwapStep
  <2>2. CASE \E form \in Forms : PoolSwap(form, t[1], t[2], t[3], t[4])
    BY <2>2, PoolSwapKeeps
  <2>3. CASE \E router \in Routers, form \in Routed :
               RoutedSwap(router, form, t[1], t[2], t[3], t[4])
    BY <2>3, RoutedSwapKeeps
  <2>4. CASE t[3] \in Tokens /\ CurveBuy(t[2], t[3], t[4])
    BY <2>4, TradeFacts, CurveBuyKeeps
  <2>5. CASE t[1] \in Tokens /\ CurveSell(t[1], t[2], t[4])
    BY <2>5, TradeFacts, CurveSellKeeps
  <2> QED BY <2>1, <2>2, <2>3, <2>4, <2>5
<1> QED BY <1>1, <1>2, <1>3, <1>4, <1>5, <1>6 DEF TxNext

-----------------------------------------------------------------------------
(* The risk arithmetic.                                                    *)

\* What an integer quotient is.
LEMMA Quotient ==
  ASSUME NEW a \in Nat, NEW b \in Nat \ {0}
  PROVE  /\ a \div b \in Nat
         /\ b * (a \div b) <= a /\ a < b * (a \div b) + b
BY Z3

\* A positive factor can be cancelled.
LEMMA Cancel ==
  ASSUME NEW b \in Nat \ {0}, NEW x \in Nat, NEW y \in Nat, b * x <= b * y
  PROVE  x <= y
BY Z3

\* A larger dividend has no smaller quotient.
LEMMA QuotientGrows ==
  ASSUME NEW a \in Nat, NEW c \in Nat, NEW b \in Nat \ {0}, a <= c
  PROVE  a \div b <= c \div b
<1> DEFINE q == a \div b
           r == c \div b
<1>1. q \in Nat /\ r \in Nat /\ b * q <= a /\ c < b * r + b
  BY Quotient
<1> HIDE DEF q, r
<1>2. b * q < b * (r + 1)
  BY <1>1
<1>3. SUFFICES ASSUME q >= r + 1 PROVE FALSE
  BY <1>1 DEF q, r
<1>4. b * (r + 1) <= b * q
  BY <1>1, <1>3
<1> QED BY <1>1, <1>2, <1>4

\* The loss of a round trip is between 0 and 10000 basis points whatever
\* comes back, so the cast to u16 keeps it (risk.rs:117-122).
THEOREM LossFits == \A out \in Nat : LossNeverTruncated(out)
<1> SUFFICES ASSUME NEW out \in Nat PROVE LossBps(out) \in Nat /\ LossBps(out) <= 10000
  BY DEF LossNeverTruncated
<1>1. CASE out >= ProbeIn
  BY <1>1 DEF LossBps
<1>2. CASE ~(out >= ProbeIn)
  <2> DEFINE q == ((ProbeIn - out) * 10000) \div ProbeIn
  <2>1. ProbeIn \in Nat \ {0} /\ out < ProbeIn
    BY <1>2, ProbeAssumption
  <2>2. (ProbeIn - out) * 10000 \in Nat /\ (ProbeIn - out) * 10000 <= ProbeIn * 10000
    BY <2>1
  <2>3. q \in Nat /\ ProbeIn * q <= (ProbeIn - out) * 10000
    BY <2>1, <2>2, Quotient
  <2>4. LossBps(out) = q
    BY <1>2 DEF LossBps
  <2> HIDE DEF q
  <2>5. ProbeIn * q <= ProbeIn * 10000
    BY <2>1, <2>2, <2>3
  <2>6. q <= 10000
    BY <2>1, <2>3, <2>5, Cancel
  <2> QED BY <2>3, <2>4, <2>6
<1> QED BY <1>1, <1>2

\* risk.rs:117-122: the more comes back, the smaller the loss.
LEMMA LossFalls ==
  ASSUME NEW out \in Nat, NEW more \in Nat, more >= out
  PROVE  LossBps(more) <= LossBps(out)
<1> DEFINE l == LossBps(out)
<1>1. CASE more >= ProbeIn
  <2>1. LossBps(more) = 0
    BY <1>1 DEF LossBps
  <2>2. l \in Nat
    BY LossFits DEF LossNeverTruncated
  <2> HIDE DEF l
  <2>3. 0 <= l
    BY <2>2
  <2> QED BY <2>1, <2>3 DEF l
<1>2. CASE ~(more >= ProbeIn)
  <2> DEFINE a == (ProbeIn - more) * 10000
             c == (ProbeIn - out) * 10000
  <2>1. /\ ProbeIn \in Nat \ {0} /\ a \in Nat /\ c \in Nat /\ a <= c
        /\ ~(out >= ProbeIn)
    BY <1>2, ProbeAssumption
  <2>2. LossBps(more) = a \div ProbeIn /\ LossBps(out) = c \div ProbeIn
    BY <1>2, <2>1 DEF LossBps
  <2> HIDE DEF a, c
  <2>3. a \div ProbeIn <= c \div ProbeIn
    BY <2>1, QuotientGrows
  <2> QED BY <2>2, <2>3
<1> QED BY <1>1, <1>2

\* The honeypot gate is monotone for every probe, answer and threshold: the
\* u16 cast never turns a larger loss into a smaller one (risk.rs:96-130).
THEOREM HoneypotNeverInverted ==
  \A buy_out, out, more, max_bps \in Nat : HoneypotMonotone(buy_out, out, more, max_bps)
<1> SUFFICES ASSUME NEW buy_out \in Nat, NEW out \in Nat,
                    NEW more \in Nat, NEW max_bps \in Nat,
                    more >= out, ~HoneypotRejects(buy_out, out, max_bps)
             PROVE  ~HoneypotRejects(buy_out, more, max_bps)
  BY DEF HoneypotMonotone
<1> DEFINE l == LossBps(out)
           m == LossBps(more)
<1>1. l \in Nat /\ l <= 10000 /\ m \in Nat /\ m <= 10000
  BY LossFits DEF LossNeverTruncated
<1>2. m <= l
  BY LossFalls
<1>3. buy_out # 0 /\ out # 0 /\ ~(l % 65536 > max_bps)
  BY DEF HoneypotRejects
<1>4. ~HoneypotRejects(buy_out, more, max_bps)
        <=> buy_out # 0 /\ more # 0 /\ ~(m % 65536 > max_bps)
  BY DEF HoneypotRejects
<1> HIDE DEF l, m
<1>5. l % 65536 = l /\ m % 65536 = m
  BY <1>1
<1>6. more # 0 /\ ~(m > max_bps)
  BY <1>1, <1>2, <1>3, <1>5
<1> QED BY <1>3, <1>4, <1>5, <1>6

\* A fixed_usd copy never costs more than sizing_value at the price its target
\* was valued with, whatever that price (risk.rs:157-163).
THEOREM FixedUsdNeverOverspends ==
  \A value, amount, px \in Nat : FixedUsdWithinBudget(value, amount, px)
<1> SUFFICES ASSUME NEW value \in Nat, NEW amount \in Nat, NEW px \in Nat
             PROVE  SizeCopy("fixed_usd", value, amount, amount * px, 0) * px <= value
  BY DEF FixedUsdWithinBudget
<1> DEFINE usd == amount * px
<1>1. SizeCopy("fixed_usd", value, amount, usd, 0)
        = IF usd = 0 THEN 0 ELSE (value * amount) \div usd
  BY DEF SizeCopy
<1>2. CASE usd = 0
  BY <1>1, <1>2
<1>3. CASE usd # 0
  <2> DEFINE q == (value * amount) \div usd
  <2>1. usd \in Nat \ {0} /\ value * amount \in Nat /\ amount \in Nat \ {0}
    BY <1>3
  <2>2. q \in Nat /\ usd * q <= value * amount
    BY <2>1, Quotient
  <2>3. SizeCopy("fixed_usd", value, amount, usd, 0) = q
    BY <1>1, <1>3
  <2> HIDE DEF q
  <2>4. amount * (q * px) <= amount * value
    BY <2>2
  <2>5. q * px \in Nat
    BY <2>2
  <2>6. q * px <= value
    BY <2>1, <2>4, <2>5, Cancel
  <2> QED BY <2>3, <2>6
<1> QED BY <1>2, <1>3

-----------------------------------------------------------------------------
(* The wallets of the configuration.                                       *)

\* The stream brings exactly the transactions handle_tx finds a wallet for,
\* however many wallets there are, and whatever is listed twice or disabled
\* (config.rs:149-167, geyser.rs:127-138).
THEOREM DispatchIsExact ==
  \A S, addresses : \A wallets \in Seq(S) : DispatchMatches(wallets, addresses)
<1> SUFFICES ASSUME NEW S, NEW addresses, NEW wallets \in Seq(S), Validate(wallets),
                    NEW a \in addresses
             PROVE  LET i == WalletByAddress(wallets, a) IN
                    /\ a \in Subscribed(wallets) <=> i # 0
                    /\ i # 0 => /\ wallets[i].enabled /\ wallets[i].address = a
                                /\ Valid(wallets[i])
  BY DEF DispatchMatches
<1> DEFINE found == {i \in DOMAIN wallets : wallets[i].address = a /\ wallets[i].enabled}
           i == WalletByAddress(wallets, a)
<1>1. DOMAIN wallets = 1..Len(wallets) /\ Len(wallets) \in Nat
  BY LenProperties
<1>2. found \in SUBSET Nat /\ 0 \notin found
  BY <1>1
<1>3. i = IF found = {} THEN 0 ELSE Min(found)
  BY DEF WalletByAddress
<1>4. a \in Subscribed(wallets) <=> found # {}
  BY DEF Subscribed
<1>5. CASE found = {}
  BY <1>3, <1>4, <1>5
<1>6. CASE found # {}
  <2>1. Min(found) \in found
    <3> HIDE DEF found
    <3> QED BY <1>2, <1>6, MinExists
  <2>2. i \in found
    BY <1>3, <1>6, <2>1
  <2>3. /\ i \in DOMAIN wallets /\ wallets[i].address = a /\ wallets[i].enabled /\ i # 0
    <3> HIDE DEF i
    <3> QED BY <1>2, <2>2
  <2>4. Valid(wallets[i])
    <3> HIDE DEF i
    <3> QED BY <2>3 DEF Validate
  <2> QED BY <1>4, <1>6, <2>3, <2>4
<1> QED BY <1>5, <1>6

-----------------------------------------------------------------------------
(* The expansion of the configuration's text.                              *)

\* A property that holds at a and is handed on from k to k + 1 holds up to b.
LEMMA Ascends ==
  ASSUME NEW a \in Int, NEW b \in Int, NEW S, a \in S,
         \A k \in a..b : k \in S /\ k + 1 \in a..b => k + 1 \in S
  PROVE  \A k \in a..b : k \in S
<1> DEFINE Bad == {d \in Nat : a + d \in a..b /\ a + d \notin S}
<1>1. SUFFICES ASSUME Bad # {} PROVE FALSE
  <2> SUFFICES ASSUME NEW k \in a..b, k \notin S PROVE FALSE
    OBVIOUS
  <2>1. k - a \in Nat /\ a + (k - a) = k
    OBVIOUS
  <2>2. k - a \in Bad
    BY <2>1
  <2> QED BY <1>1, <2>2
<1> DEFINE d == Min(Bad)
<1>2. d \in Bad /\ \A e \in Bad : d <= e
  <2>1. Bad \in SUBSET Nat
    OBVIOUS
  <2> HIDE DEF Bad
  <2> QED BY <1>1, <2>1, MinExists
<1> HIDE DEF d
<1>3. d \in Nat /\ a + d \in a..b /\ a + d \notin S
  BY <1>2
<1>4. d # 0
  BY <1>3
<1>5. d - 1 \in Nat /\ a + (d - 1) \in a..b /\ a + (d - 1) + 1 = a + d
  BY <1>3, <1>4
<1>6. a + (d - 1) \in S
  <2>1. d - 1 \notin Bad
    <3>1. ~(d <= d - 1)
      BY <1>3
    <3> HIDE DEF Bad
    <3> QED BY <1>2, <3>1
  <2> QED BY <1>5, <2>1
<1> QED BY <1>3, <1>5, <1>6

\* A property that every k inherits from all larger ones holds down to a.
LEMMA Descends ==
  ASSUME NEW a \in Int, NEW b \in Int, NEW S,
         \A k \in a..b : (\A l \in a..b : l > k => l \in S) => k \in S
  PROVE  \A k \in a..b : k \in S
<1> DEFINE Bad == {d \in Nat : b - d \in a..b /\ b - d \notin S}
<1>1. SUFFICES ASSUME Bad # {} PROVE FALSE
  <2> SUFFICES ASSUME NEW k \in a..b, k \notin S PROVE FALSE
    OBVIOUS
  <2>1. b - k \in Nat /\ b - (b - k) = k
    OBVIOUS
  <2>2. b - k \in Bad
    BY <2>1
  <2> QED BY <1>1, <2>2
<1> DEFINE d == Min(Bad)
<1>2. d \in Bad /\ \A e \in Bad : d <= e
  <2>1. Bad \in SUBSET Nat
    OBVIOUS
  <2> HIDE DEF Bad
  <2> QED BY <1>1, <2>1, MinExists
<1> HIDE DEF d
<1>3. d \in Nat /\ b - d \in a..b /\ b - d \notin S
  BY <1>2
<1>4. ASSUME NEW l \in a..b, l > b - d PROVE l \in S
  <2>1. b - l \in Nat /\ b - (b - l) = l /\ ~(d <= b - l)
    BY <1>3, <1>4
  <2>2. b - l \notin Bad
    <3> HIDE DEF Bad
    <3> QED BY <1>2, <2>1
  <2> QED BY <2>1, <2>2
<1> QED BY <1>3, <1>4

\* The recursive functions of Scanned and ExpandEnv, and where the scan begins.
Idle0 == [inside |-> FALSE, name |-> <<>>, out |-> <<>>]
ScanOf(text) ==
  CHOOSE f : f = [i \in 0..Len(text) |-> IF i = 0 THEN Idle0 ELSE Read(f[i - 1], text[i])]
RestOf(text) == CHOOSE f : f = [i \in 1..Len(text) + 1 |-> Turn(text, f, i)]

\* The recursion of the scan is well founded.
LEMMA ScanDefined ==
  ASSUME NEW S, NEW text \in Seq(S)
  PROVE  LET scan == ScanOf(text) IN
         /\ scan[0] = Idle0
         /\ \A i \in 1..Len(text) : scan[i] = Read(scan[i - 1], text[i])
         /\ Scanned(text) = scan[Len(text)]
<1> DEFINE n == Len(text)
           Scans(f, k) == f = [i \in 0..k |-> IF i = 0 THEN Idle0 ELSE Read(f[i - 1], text[i])]
           K == {k \in 0..n : \E f : Scans(f, k)}
<1>1. n \in Nat
  BY LenProperties
<1>2. 0 \in K
  <2>1. Scans([i \in 0..0 |-> Idle0], 0)
    OBVIOUS
  <2>2. \E f : Scans(f, 0)
    BY <2>1
  <2>3. 0 \in 0..n
    BY <1>1
  <2> QED BY <2>2, <2>3
<1>3. ASSUME NEW k \in 0..n, k \in K, k + 1 \in 0..n PROVE k + 1 \in K
  <2>1. PICK f : Scans(f, k)
    BY <1>3
  <2> DEFINE g == [i \in 0..k + 1 |-> IF i = k + 1 THEN Read(f[k], text[k + 1]) ELSE f[i]]
  <2>2. k \in Nat
    BY <1>1
  <2>3. ASSUME NEW i \in 0..k + 1
        PROVE  g[i] = IF i = 0 THEN Idle0 ELSE Read(g[i - 1], text[i])
    <3>1. CASE i = k + 1
      <4>1. i - 1 = k /\ i # 0 /\ k \in 0..k + 1 /\ k # k + 1
        BY <2>2, <3>1
      <4> QED BY <3>1, <4>1
    <3>2. CASE i # k + 1
      <4>1. i \in 0..k
        BY <2>2, <3>2
      <4>2. g[i] = f[i] /\ f[i] = IF i = 0 THEN Idle0 ELSE Read(f[i - 1], text[i])
        BY <2>1, <3>2, <4>1
      <4>3. CASE i = 0
        BY <4>2, <4>3
      <4>4. CASE i # 0
        <5>1. i - 1 \in 0..k + 1 /\ i - 1 # k + 1
          BY <2>2, <4>1, <4>4
        <5> QED BY <4>2, <4>4, <5>1
      <4> QED BY <4>3, <4>4
    <3> QED BY <3>1, <3>2
  <2>4. Scans(g, k + 1)
    <3> DEFINE h == [i \in 0..k + 1 |-> IF i = 0 THEN Idle0 ELSE Read(g[i - 1], text[i])]
    <3>1. \A i \in 0..k + 1 : g[i] = h[i]
      BY <2>3
    <3>2. g = h
      BY <3>1
    <3> QED BY <3>2
  <2> QED BY <1>3, <2>4
<1>4. n \in K
  <2>1. \A k \in 0..n : k \in K
    <3> HIDE DEF K, n
    <3> QED BY <1>1, <1>2, <1>3, Ascends
  <2> QED BY <1>1, <2>1
<1> DEFINE scan == ScanOf(text)
<1>5. Scans(scan, n)
  <2>1. \E f : Scans(f, n)
    BY <1>4
  <2> QED BY <2>1 DEF ScanOf
<1>6. Scanned(text) = scan[n]
  BY DEF Scanned, ScanOf, Idle0
<1> HIDE DEF scan
<1>7. scan[0] = Idle0 /\ \A i \in 1..n : scan[i] = Read(scan[i - 1], text[i])
  BY <1>1, <1>5
<1> QED BY <1>6, <1>7 DEF scan

\* The recursion of expand_env is well founded: a turn looks only at later ones.
LEMMA TurnLooksAhead ==
  ASSUME NEW S, NEW text \in Seq(S), NEW i \in 1..Len(text) + 1, NEW f, NEW g,
         \A j \in 1..Len(text) + 1 : j > i => f[j] = g[j]
  PROVE  Turn(text, f, i) = Turn(text, g, i)
<1> DEFINE n == Len(text)
           open == Positions(text, OPEN, i)
           o == Min(open)
           close == Positions(text, CLOSE, o + 1)
           c == Min(close)
<1>1. n \in Nat
  BY LenProperties
<1>2. CASE open = {}
  BY <1>2 DEF Turn
<1>3. CASE open # {} /\ close = {}
  BY <1>3 DEF Turn
<1>4. CASE open # {} /\ close # {}
  <2>1. open \in SUBSET Nat /\ open \subseteq i..n
    BY <1>1 DEF Positions
  <2>2. o \in i..n
    <3> HIDE DEF open
    <3> QED BY <1>4, <2>1, MinExists
  <2>3. close \in SUBSET Nat /\ close \subseteq o + 1..n
    <3> HIDE DEF o
    <3> QED BY <1>1, <2>2 DEF Positions
  <2>4. c \in o + 1..n
    <3> HIDE DEF close
    <3> QED BY <1>4, <2>3, MinExists
  <2>5. c + 1 \in 1..n + 1 /\ c + 1 > i
    <3> HIDE DEF o, c
    <3> QED BY <1>1, <2>2, <2>4
  <2>6. f[c + 1] = g[c + 1]
    <3> HIDE DEF c
    <3> QED BY <2>5
  <2> QED BY <1>4, <2>6 DEF Turn
<1> QED BY <1>2, <1>3, <1>4

\* So there is such a function, and expand_env is its value at the first position.
LEMMA RestDefined ==
  ASSUME NEW S, NEW text \in Seq(S)
  PROVE  LET rest == RestOf(text) IN
         /\ \A i \in 1..Len(text) + 1 : rest[i] = Turn(text, rest, i)
         /\ ExpandEnv(text) = rest[1]
<1> DEFINE n == Len(text)
           Turns(f, k) == f = [i \in k..n + 1 |-> Turn(text, f, i)]
           K == {k \in 1..n + 1 : \E f : Turns(f, k)}
<1>1. n \in Nat
  BY LenProperties
<1>2. ASSUME NEW k \in 1..n + 1, \A l \in 1..n + 1 : l > k => l \in K PROVE k \in K
  <2>1. PICK f : k + 1 \in 1..n + 1 => Turns(f, k + 1)
    <3>1. CASE k + 1 \in 1..n + 1
      <4>1. k + 1 > k
        OBVIOUS
      <4> QED BY <1>2, <3>1, <4>1
    <3> QED BY <3>1
  <2> DEFINE g == [i \in k..n + 1 |-> IF i = k THEN Turn(text, f, k) ELSE f[i]]
  <2>2. ASSUME NEW j \in 1..n + 1, j > k PROVE j \in k..n + 1 /\ g[j] = f[j]
    BY <1>1, <2>2
  <2>3. ASSUME NEW i \in k..n + 1 PROVE g[i] = Turn(text, g, i)
    <3>1. i \in 1..n + 1
      BY <1>1
    <3>2. \A j \in 1..n + 1 : j > i => f[j] = g[j]
      <4>1. \A j \in 1..n + 1 : j > i => j > k
        BY <1>1
      <4> HIDE DEF g
      <4> QED BY <2>2, <4>1
    <3>3. Turn(text, f, i) = Turn(text, g, i)
      <4> HIDE DEF g
      <4> QED BY <3>1, <3>2, TurnLooksAhead
    <3>4. CASE i = k
      BY <3>3, <3>4
    <3>5. CASE i # k
      <4>1. k + 1 \in 1..n + 1 /\ i \in k + 1..n + 1
        BY <1>1, <3>5
      <4>2. g[i] = f[i] /\ f[i] = Turn(text, f, i)
        BY <2>1, <3>5, <4>1
      <4> QED BY <3>3, <4>2
    <3> QED BY <3>4, <3>5
  <2>4. Turns(g, k)
    <3> DEFINE h == [i \in k..n + 1 |-> Turn(text, g, i)]
    <3>1. \A i \in k..n + 1 : g[i] = h[i]
      BY <2>3
    <3>2. g = h
      BY <3>1
    <3> QED BY <3>2
  <2> QED BY <2>4
<1>3. 1 \in K
  <2> DEFINE m == n + 1
  <2>1. 1 \in Int /\ m \in Int /\ 1 \in 1..m
    BY <1>1
  <2>2. \A k \in 1..m : (\A l \in 1..m : l > k => l \in K) => k \in K
    BY <1>2
  <2> HIDE DEF K, m
  <2> QED BY <2>1, <2>2, Descends
<1> DEFINE rest == RestOf(text)
<1>4. Turns(rest, 1)
  <2>1. \E f : Turns(f, 1)
    BY <1>3
  <2> QED BY <2>1 DEF RestOf
<1>5. ExpandEnv(text) = rest[1]
  BY DEF ExpandEnv, RestOf
<1> HIDE DEF rest
<1>6. \A i \in 1..n + 1 : rest[i] = Turn(text, rest, i)
  BY <1>4
<1> QED BY <1>5, <1>6 DEF rest

\* The values of the environment are texts over S.
ValuesIn(S) == \A name : EnvVar(name) \in Seq(S)

\* The states of the scan.
Scanner(S) == [inside : BOOLEAN, name : Seq(S), out : Seq(S)]

\* What the scan makes of one token.
LEMMA ReadCases ==
  ASSUME NEW S, NEW s \in Scanner(S), NEW token
  PROVE  /\ ~s.inside /\ token = OPEN =>
              Read(s, token) = [inside |-> TRUE, name |-> <<>>, out |-> s.out]
         /\ ~s.inside /\ token # OPEN =>
              Read(s, token) = [inside |-> FALSE, name |-> s.name,
                                out |-> Append(s.out, token)]
         /\ s.inside /\ token = CLOSE =>
              Read(s, token) = [inside |-> FALSE, name |-> s.name,
                                out |-> s.out \o EnvVar(s.name)]
         /\ s.inside /\ token # CLOSE =>
              Read(s, token) = [inside |-> TRUE, name |-> Append(s.name, token), out |-> s.out]
<1>1. CASE ~s.inside /\ token = OPEN
  BY <1>1 DEF Read, Scanner
<1>2. CASE ~s.inside /\ token # OPEN
  BY <1>2 DEF Read, Scanner
<1>3. CASE s.inside /\ token = CLOSE
  BY <1>3 DEF Read, Scanner
<1>4. CASE s.inside /\ token # CLOSE
  BY <1>4 DEF Read, Scanner
<1> QED BY <1>1, <1>2, <1>3, <1>4

\* A CLOSE ends the name.
LEMMA ReadClose ==
  ASSUME NEW S, NEW s \in Scanner(S), s.inside
  PROVE  ~Read(s, CLOSE).inside /\ Read(s, CLOSE).out = s.out \o EnvVar(s.name)
<1> DEFINE out == s.out \o EnvVar(s.name)
<1>1. Read(s, CLOSE) = [inside |-> FALSE, name |-> s.name, out |-> out]
  BY ReadCases
<1> HIDE DEF out
<1>2. ~Read(s, CLOSE).inside /\ Read(s, CLOSE).out = out
  BY <1>1
<1> QED BY <1>2 DEF out

\* One token more.
LEMMA SubSeqGrows ==
  ASSUME NEW S, NEW text \in Seq(S), NEW a \in 1..Len(text), NEW k \in a - 1..Len(text) - 1
  PROVE  /\ SubSeq(text, a, k) \in Seq(S)
         /\ text[k + 1] \in S
         /\ SubSeq(text, a, k + 1) = Append(SubSeq(text, a, k), text[k + 1])
<1>1. Len(text) \in Nat
  BY LenProperties
<1>2. \A i \in a..k : text[i] \in S
  BY <1>1, ElementOfSeq
<1>3. SubSeq(text, a, k) \in Seq(S)
  BY <1>1, <1>2, SubSeqProperties
<1>4. k + 1 \in a..Len(text) /\ k + 1 \in 1..Len(text) /\ (k + 1) - 1 = k
  BY <1>1
<1>5. text[k + 1] \in S
  BY <1>4, ElementOfSeq
<1>6. SubSeq(text, a, k + 1) = SubSeq(text, a, k) \o <<text[k + 1]>>
  BY <1>4, SubSeqRecursiveSecond
<1> QED BY <1>3, <1>5, <1>6, AppendIsConcat

\* A token appended to a concatenation goes to its second part.
LEMMA AppendToConcat ==
  ASSUME NEW S, NEW u \in Seq(S), NEW v \in Seq(S), NEW x \in S
  PROVE  Append(u \o v, x) = u \o (v \o <<x>>)
<1>1. u \o v \in Seq(S) /\ <<x>> \in Seq(S)
  BY ConcatProperties
<1>2. Append(u \o v, x) = (u \o v) \o <<x>>
  BY <1>1, AppendIsConcat
<1>3. (u \o v) \o <<x>> = u \o (v \o <<x>>)
  BY <1>1, ConcatAssociative
<1> QED BY <1>2, <1>3

\* Instances of the associativity of \o get a name of their own: the provers apply
\* the library's theorem without end where many sequences are in sight.
Associates(u, v, x) == (u \o v) \o x = u \o (v \o x)

\* Concatenation is associative (the library's theorem, one instance at a time).
LEMMA Associate ==
  ASSUME NEW S, NEW u \in Seq(S), NEW v \in Seq(S), NEW x \in Seq(S)
  PROVE  Associates(u, v, x)
BY ConcatAssociative DEF Associates

Regroups(w, u, v, x) == ((w \o u) \o v) \o x = w \o ((u \o v) \o x)

\* Four texts in a row, grouped from the left or after the first.
LEMMA Regroup ==
  ASSUME NEW S, NEW w \in Seq(S), NEW u \in Seq(S), NEW v \in Seq(S), NEW x \in Seq(S)
  PROVE  Regroups(w, u, v, x)
<1>1. u \o v \in Seq(S)
  BY ConcatProperties
<1>2. Associates(w, u, v)
  BY Associate
<1>3. Associates(w, u \o v, x)
  BY <1>1, Associate
<1> QED BY <1>2, <1>3 DEF Associates, Regroups

\* The scan stays among its states.
LEMMA ScanTyped ==
  ASSUME NEW S, NEW text \in Seq(S), ValuesIn(S)
  PROVE  \A i \in 0..Len(text) : ScanOf(text)[i] \in Scanner(S)
<1> DEFINE n == Len(text)
           scan == ScanOf(text)
           K == {k \in 0..n : scan[k] \in Scanner(S)}
<1>1. n \in Nat
  BY LenProperties
<1>2. scan[0] = Idle0 /\ \A i \in 1..n : scan[i] = Read(scan[i - 1], text[i])
  BY ScanDefined
<1>3. 0 \in K
  <2>1. Idle0 \in Scanner(S)
    BY EmptySeq DEF Idle0, Scanner
  <2> HIDE DEF scan
  <2> QED BY <1>1, <1>2, <2>1
<1>4. ASSUME NEW k \in 0..n, k \in K, k + 1 \in 0..n PROVE k + 1 \in K
  <2> HIDE DEF scan
  <2>1. k + 1 \in 1..n /\ (k + 1) - 1 = k
    BY <1>1, <1>4
  <2>2. scan[k + 1] = Read(scan[k], text[k + 1])
    BY <1>2, <2>1
  <2>3. scan[k] \in Scanner(S) /\ text[k + 1] \in S
    BY <1>4, <2>1, ElementOfSeq
  <2>4. ASSUME NEW s \in Scanner(S), NEW token \in S PROVE Read(s, token) \in Scanner(S)
    <3>1. s.name \in Seq(S) /\ s.out \in Seq(S) /\ s.inside \in BOOLEAN
      BY DEF Scanner
    <3>2. /\ <<>> \in Seq(S)
          /\ Append(s.name, token) \in Seq(S) /\ Append(s.out, token) \in Seq(S)
      BY <3>1, EmptySeq, AppendProperties
    <3>3. s.out \o EnvVar(s.name) \in Seq(S)
      BY <3>1, ConcatProperties DEF ValuesIn
    <3>4. \/ Read(s, token) = [inside |-> TRUE, name |-> <<>>, out |-> s.out]
          \/ Read(s, token) = [inside |-> FALSE, name |-> s.name, out |-> Append(s.out, token)]
          \/ Read(s, token) = [inside |-> FALSE, name |-> s.name,
                               out |-> s.out \o EnvVar(s.name)]
          \/ Read(s, token) = [inside |-> TRUE, name |-> Append(s.name, token), out |-> s.out]
      BY ReadCases
    <3>5. ASSUME NEW name \in Seq(S), NEW out \in Seq(S), NEW inside \in BOOLEAN
          PROVE  [inside |-> inside, name |-> name, out |-> out] \in Scanner(S)
      BY DEF Scanner
    <3> QED BY <3>1, <3>2, <3>3, <3>4, <3>5
  <2>5. scan[k + 1] \in Scanner(S)
    BY <2>2, <2>3, <2>4
  <2> QED BY <1>4, <2>5
<1>5. \A k \in 0..n : k \in K
  <2>1. 0 \in Int /\ n \in Int
    BY <1>1
  <2>2. \A k \in 0..n : k \in K /\ k + 1 \in 0..n => k + 1 \in K
    BY <1>4
  <2> HIDE DEF K, n
  <2> QED BY <1>3, <2>1, <2>2, Ascends
<1> QED BY <1>5

\* Outside a name and up to the next OPEN, the scan copies.
LEMMA CopyRun ==
  ASSUME NEW S, NEW text \in Seq(S), ValuesIn(S),
         NEW a \in 0..Len(text), NEW b \in a..Len(text),
         ~ScanOf(text)[a].inside, \A j \in a + 1..b : text[j] # OPEN
  PROVE  /\ ~ScanOf(text)[b].inside
         /\ ScanOf(text)[b].out = ScanOf(text)[a].out \o SubSeq(text, a + 1, b)
<1> DEFINE n == Len(text)
           scan == ScanOf(text)
           Copied(k) == ~scan[k].inside /\ scan[k].out = scan[a].out \o SubSeq(text, a + 1, k)
           K == {k \in a..b : Copied(k)}
<1>1. n \in Nat /\ a \in Int /\ b \in Int /\ a <= b /\ b <= n /\ 0 <= a
  BY LenProperties
<1>2. \A i \in 1..n : scan[i] = Read(scan[i - 1], text[i])
  BY ScanDefined
<1>3. \A i \in 0..n : scan[i] \in Scanner(S)
  BY ScanTyped
<1>4. scan[a].out \in Seq(S)
  BY <1>1, <1>3 DEF Scanner
<1>5. a \in K
  <2>1. SubSeq(text, a + 1, a) = <<>>
    BY <1>1, SubSeqEmpty
  <2>2. scan[a].out \o <<>> = scan[a].out
    BY <1>4, ConcatEmptySeq
  <2>3. Copied(a)
    BY <2>1, <2>2
  <2>4. a \in a..b
    BY <1>1
  <2> QED BY <2>3, <2>4
<1>6. ASSUME NEW k \in a..b, k \in K, k + 1 \in a..b PROVE k + 1 \in K
  <2>1. k + 1 \in 1..n /\ (k + 1) - 1 = k /\ k + 1 \in a + 1..b /\ k \in 0..n
    BY <1>1, <1>6
  <2>2. scan[k] \in Scanner(S) /\ Copied(k) /\ text[k + 1] # OPEN
    BY <1>3, <1>6, <2>1
  <2>3. scan[k + 1] = Read(scan[k], text[k + 1])
    BY <1>2, <2>1
  <2>4. a + 1 \in 1..n /\ k \in (a + 1) - 1..n - 1
    BY <1>1, <1>6
  <2> DEFINE part == SubSeq(text, a + 1, k)
             t == text[k + 1]
             whole == SubSeq(text, a + 1, k + 1)
             out == scan[a].out
  <2>5. part \in Seq(S) /\ t \in S /\ whole = Append(part, t)
    BY <2>4, SubSeqGrows
  <2> HIDE DEF scan
  <2>6. ~scan[k + 1].inside /\ scan[k + 1].out = Append(out \o part, t)
    <3>1. ~scan[k].inside
      BY <2>2
    <3>2. Read(scan[k], t) = [inside |-> FALSE, name |-> scan[k].name,
                              out |-> Append(scan[k].out, t)]
      BY <2>2, <3>1, ReadCases
    <3>3. scan[k + 1] = [inside |-> FALSE, name |-> scan[k].name,
                         out |-> Append(scan[k].out, t)]
      BY <2>3, <3>2
    <3>4. scan[k].out = out \o part
      BY <2>2
    <3>5. ~scan[k + 1].inside
      BY <3>3
    <3>6. scan[k + 1].out = Append(scan[k].out, t)
      BY <3>3
    <3> QED BY <3>4, <3>5, <3>6
  <2>7. Append(out \o part, t) = out \o Append(part, t)
    <3> HIDE DEF part, t, out
    <3>1. out \in Seq(S)
      BY <1>4 DEF out
    <3>2. part \in Seq(S) /\ t \in S
      BY <2>5
    <3>3. Append(out \o part, t) = out \o (part \o <<t>>)
      BY <3>1, <3>2, AppendToConcat
    <3>4. part \o <<t>> = Append(part, t)
      BY <3>2, AppendIsConcat
    <3> QED BY <3>3, <3>4
  <2> QED BY <1>6, <2>5, <2>6, <2>7
<1>7. b \in K
  <2>1. \A k \in a..b : k \in K /\ k + 1 \in a..b => k + 1 \in K
    BY <1>6
  <2>2. a \in Int /\ b \in Int /\ b \in a..b
    BY <1>1
  <2> HIDE DEF K
  <2>3. \A k \in a..b : k \in K
    BY <1>5, <2>1, <2>2, Ascends
  <2> QED BY <2>2, <2>3
<1> QED BY <1>7

\* Inside a name and up to the next CLOSE, the scan collects.
LEMMA NameRun ==
  ASSUME NEW S, NEW text \in Seq(S), ValuesIn(S),
         NEW a \in 1..Len(text), NEW b \in a..Len(text),
         ScanOf(text)[a].inside, ScanOf(text)[a].name = <<>>,
         \A j \in a + 1..b : text[j] # CLOSE
  PROVE  /\ ScanOf(text)[b].inside
         /\ ScanOf(text)[b].name = SubSeq(text, a + 1, b)
         /\ ScanOf(text)[b].out = ScanOf(text)[a].out
<1> DEFINE n == Len(text)
           scan == ScanOf(text)
           Collected(k) == /\ scan[k].inside
                           /\ scan[k].name = SubSeq(text, a + 1, k)
                           /\ scan[k].out = scan[a].out
           K == {k \in a..b : Collected(k)}
<1>1. n \in Nat /\ a \in Int /\ b \in Int /\ a <= b /\ b <= n /\ 1 <= a
  BY LenProperties
<1>2. \A i \in 1..n : scan[i] = Read(scan[i - 1], text[i])
  BY ScanDefined
<1>3. \A i \in 0..n : scan[i] \in Scanner(S)
  BY ScanTyped
<1>4. a \in K
  <2>1. SubSeq(text, a + 1, a) = <<>>
    BY <1>1, SubSeqEmpty
  <2>2. Collected(a)
    BY <2>1
  <2>3. a \in a..b
    BY <1>1
  <2> QED BY <2>2, <2>3
<1>5. ASSUME NEW k \in a..b, k \in K, k + 1 \in a..b PROVE k + 1 \in K
  <2>1. k + 1 \in 1..n /\ (k + 1) - 1 = k /\ k + 1 \in a + 1..b /\ k \in 0..n
    BY <1>1, <1>5
  <2>2. scan[k] \in Scanner(S) /\ Collected(k) /\ text[k + 1] # CLOSE
    BY <1>3, <1>5, <2>1
  <2>3. scan[k + 1] = Read(scan[k], text[k + 1])
    BY <1>2, <2>1
  <2>4. a + 1 \in 1..n /\ k \in (a + 1) - 1..n - 1
    BY <1>1, <1>5
  <2>5. SubSeq(text, a + 1, k + 1) = Append(SubSeq(text, a + 1, k), text[k + 1])
    BY <2>4, SubSeqGrows
  <2> HIDE DEF scan
  <2>6. Read(scan[k], text[k + 1]) = [inside |-> TRUE,
                                      name |-> Append(scan[k].name, text[k + 1]),
                                      out |-> scan[k].out]
    BY <2>2, ReadCases
  <2>7. scan[k + 1] = [inside |-> TRUE, name |-> Append(scan[k].name, text[k + 1]),
                       out |-> scan[k].out]
    BY <2>3, <2>6
  <2>8. Collected(k + 1)
    BY <2>2, <2>5, <2>7
  <2> QED BY <1>5, <2>8
<1>6. b \in K
  <2>1. \A k \in a..b : k \in K /\ k + 1 \in a..b => k + 1 \in K
    BY <1>5
  <2>2. a \in Int /\ b \in Int /\ b \in a..b
    BY <1>1
  <2> HIDE DEF K
  <2>3. \A k \in a..b : k \in K
    BY <1>4, <2>1, <2>2, Ascends
  <2> QED BY <2>2, <2>3
<1> QED BY <1>6

\* What a turn from position i on makes of the text is what the scan makes of it.
Agree(text, i, S) ==
  LET scan == ScanOf(text)
      rest == RestOf(text)
      n == Len(text)
  IN ~scan[i - 1].inside =>
       /\ rest[i].ok <=> ~scan[n].inside
       /\ rest[i].ok => /\ rest[i].text \in Seq(S)
                        /\ scan[n].out = scan[i - 1].out \o rest[i].text

\* A turn agrees with the scan when the later turns do.
LEMMA TurnAgrees ==
  ASSUME NEW S, NEW text \in Seq(S), ValuesIn(S),
         NEW i \in 1..Len(text) + 1,
         \A j \in 1..Len(text) + 1 : j > i => Agree(text, j, S)
  PROVE  Agree(text, i, S)
<1> DEFINE n == Len(text)
           scan == ScanOf(text)
           rest == RestOf(text)
           open == Positions(text, OPEN, i)
           o == Min(open)
           close == Positions(text, CLOSE, o + 1)
           c == Min(close)
           before == scan[i - 1].out
<1> SUFFICES ASSUME ~scan[i - 1].inside
             PROVE  /\ rest[i].ok <=> ~scan[n].inside
                    /\ rest[i].ok => /\ rest[i].text \in Seq(S)
                                     /\ scan[n].out = before \o rest[i].text
  BY DEF Agree
<1>1. n \in Nat /\ i \in Int /\ i - 1 \in 0..n
  BY LenProperties
<1>2. \A j \in 1..n : scan[j] = Read(scan[j - 1], text[j])
  BY ScanDefined
<1>3. \A j \in 0..n : scan[j] \in Scanner(S)
  BY ScanTyped
<1>4. before \in Seq(S)
  BY <1>1, <1>3 DEF Scanner
<1>5. rest[i] = Turn(text, rest, i)
  BY RestDefined
<1>6. open \in SUBSET Nat
  BY <1>1 DEF Positions
<1>7. (i - 1) + 1 = i
  BY <1>1
<1> HIDE DEF scan, rest
<1>8. CASE open = {}
  <2>1. \A j \in i..n : text[j] # OPEN
    BY <1>8 DEF Positions
  <2>2. ~scan[n].inside /\ scan[n].out = before \o SubSeq(text, i, n)
    <3>1. n \in i - 1..n
      BY <1>1
    <3> QED BY <1>1, <1>7, <2>1, <3>1, CopyRun DEF scan
  <2>3. rest[i] = [ok |-> TRUE, text |-> SubSeq(text, i, n)]
    BY <1>5, <1>8 DEF Turn
  <2>4. SubSeq(text, i, n) \in Seq(S)
    <3>1. \A j \in i..n : text[j] \in S
      BY <1>1, ElementOfSeq
    <3> QED BY <1>1, <3>1, SubSeqProperties
  <2>5. rest[i].ok = TRUE
    BY <2>3
  <2>6. rest[i].text = SubSeq(text, i, n)
    BY <2>3
  <2> QED BY <2>2, <2>4, <2>5, <2>6
<1>9. CASE open # {}
  <2>1. o \in open /\ \A j \in open : o <= j
    <3> HIDE DEF open
    <3> QED BY <1>6, <1>9, MinExists
  <2>2. o \in i..n /\ text[o] = OPEN
    BY <2>1 DEF Positions
  <2> HIDE DEF o
  <2>3. o \in Int /\ i <= o /\ o <= n /\ o \in 1..n /\ o - 1 \in i - 1..n /\ o - 1 \in 0..n
    BY <1>1, <2>2
  <2>4. \A j \in i..o - 1 : text[j] # OPEN
    <3> SUFFICES ASSUME NEW j \in i..o - 1, text[j] = OPEN PROVE FALSE
      OBVIOUS
    <3>1. j \in open
      BY <1>1, <2>3 DEF Positions
    <3>2. o <= j
      BY <2>1, <3>1
    <3> QED BY <1>1, <2>3, <3>2
  <2> DEFINE copy == SubSeq(text, i, o - 1)
  <2>5. ~scan[o - 1].inside /\ scan[o - 1].out = before \o copy
    BY <1>1, <1>7, <2>3, <2>4, CopyRun DEF scan
  <2>6. copy \in Seq(S)
    <3>1. \A j \in i..o - 1 : text[j] \in S
      BY <1>1, <2>3, ElementOfSeq
    <3> QED BY <1>1, <2>3, <3>1, SubSeqProperties
  <2>7. scan[o].inside /\ scan[o].name = <<>> /\ scan[o].out = before \o copy
    <3>1. scan[o - 1] \in Scanner(S) /\ scan[o] = Read(scan[o - 1], text[o])
      BY <1>2, <1>3, <2>3
    <3>2. scan[o] = [inside |-> TRUE, name |-> <<>>, out |-> scan[o - 1].out]
      BY <2>2, <2>5, <3>1, ReadCases
    <3>3. scan[o].inside /\ scan[o].name = <<>> /\ scan[o].out = scan[o - 1].out
      BY <3>2
    <3> QED BY <2>5, <3>3
  <2>8. close \in SUBSET Nat
    BY <1>1, <2>3 DEF Positions
  <2>9. CASE close = {}
    <3>1. \A j \in o + 1..n : text[j] # CLOSE
      BY <2>9 DEF Positions
    <3>2. scan[n].inside
      <4>1. n \in o..n
        BY <1>1, <2>3
      <4> QED BY <2>3, <2>7, <3>1, <4>1, NameRun DEF scan
    <3>3. rest[i] = Unterminated
      BY <1>5, <1>9, <2>9 DEF Turn, o
    <3>4. ~rest[i].ok
      BY <3>3 DEF Unterminated
    <3> QED BY <3>2, <3>4
  <2>10. CASE close # {}
    <3>1. c \in close /\ \A j \in close : c <= j
      <4> HIDE DEF close
      <4> QED BY <2>8, <2>10, MinExists
    <3>2. c \in o + 1..n /\ text[c] = CLOSE
      BY <3>1 DEF Positions
    <3> DEFINE name == SubSeq(text, o + 1, c - 1)
               value == EnvVar(name)
               tail == rest[c + 1].text
               made == (copy \o value) \o tail
    <3>3. rest[i] = [ok |-> rest[c + 1].ok, text |-> made]
      BY <1>5, <1>9, <2>10 DEF Turn, o
    <3> HIDE DEF c, made
    <3>4. c \in Int /\ o < c /\ c <= n /\ c \in 1..n /\ c - 1 \in o..n /\ c - 1 \in 0..n
      BY <1>1, <2>3, <3>2
    <3>5. \A j \in o + 1..c - 1 : text[j] # CLOSE
      <4> SUFFICES ASSUME NEW j \in o + 1..c - 1, text[j] = CLOSE PROVE FALSE
        OBVIOUS
      <4>1. j \in close
        BY <1>1, <2>3, <3>4 DEF Positions
      <4>2. c <= j
        BY <3>1, <4>1
      <4> QED BY <2>3, <3>4, <4>2
    <3>6. scan[c - 1].inside /\ scan[c - 1].name = name /\ scan[c - 1].out = before \o copy
      BY <2>3, <2>7, <3>4, <3>5, NameRun DEF scan
    <3>7. ~scan[c].inside /\ scan[c].out = (before \o copy) \o value
      <4>1. scan[c - 1] \in Scanner(S) /\ scan[c] = Read(scan[c - 1], text[c])
        BY <1>2, <1>3, <3>4
      <4>2. scan[c] = Read(scan[c - 1], CLOSE)
        BY <3>2, <4>1
      <4>3. ~scan[c].inside /\ scan[c].out = scan[c - 1].out \o EnvVar(scan[c - 1].name)
        BY <3>6, <4>1, <4>2, ReadClose
      <4>4. scan[c].out = (before \o copy) \o EnvVar(name)
        <5> HIDE DEF copy, name, before
        <5> QED BY <3>6, <4>3
      <4> QED BY <4>3, <4>4
    <3>8. Agree(text, c + 1, S)
      <4>1. c + 1 \in 1..n + 1 /\ c + 1 > i
        BY <1>1, <2>3, <3>4
      <4> QED BY <4>1
    <3>9. /\ rest[c + 1].ok <=> ~scan[n].inside
          /\ rest[c + 1].ok => tail \in Seq(S) /\ scan[n].out = scan[c].out \o tail
      <4>1. (c + 1) - 1 = c
        BY <3>4
      <4> QED BY <3>7, <3>8, <4>1 DEF Agree, scan, rest
    <3>10. value \in Seq(S)
      BY DEF ValuesIn
    <3> HIDE DEF copy, value, before
    <3>11. rest[i].ok <=> ~scan[n].inside
      BY <3>3, <3>9
    <3>12. ASSUME rest[i].ok
           PROVE  rest[i].text \in Seq(S) /\ scan[n].out = before \o rest[i].text
      <4>1. rest[c + 1].ok
        <5>1. rest[i].ok = rest[c + 1].ok
          BY <3>3
        <5> QED BY <3>12, <5>1
      <4>2. tail \in Seq(S) /\ scan[n].out = ((before \o copy) \o value) \o tail
        BY <3>7, <3>9, <4>1
      <4>3. rest[i].text = made
        BY <3>3
      <4>4. (copy \o value) \o tail \in Seq(S)
        <5>1. copy \o value \in Seq(S)
          BY <2>6, <3>10, ConcatProperties
        <5> HIDE DEF tail
        <5> QED BY <4>2, <5>1, ConcatProperties
      <4>5. ((before \o copy) \o value) \o tail = before \o ((copy \o value) \o tail)
        <5> HIDE DEF tail
        <5>1. before \in Seq(S) /\ copy \in Seq(S) /\ value \in Seq(S) /\ tail \in Seq(S)
          BY <1>4, <2>6, <3>10, <4>2
        <5>2. Regroups(before, copy, value, tail)
          BY <5>1, Regroup
        <5> QED BY <5>2 DEF Regroups
      <4> HIDE DEF tail
      <4> QED BY <4>2, <4>3, <4>4, <4>5 DEF made
    <3> QED BY <3>11, <3>12
  <2> QED BY <2>9, <2>10
<1> QED BY <1>8, <1>9

\* expand_env (config.rs:170-188), for every text and every environment.
THEOREM ExpansionIsOneScan ==
  ASSUME NEW T, NEW text \in Seq(T)
  PROVE  ExpandedLikeScan(text)
<1> DEFINE Elements(value) == {value[i] : i \in DOMAIN value}
           S == T \union UNION {Elements(Environment[name]) : name \in DOMAIN Environment}
           n == Len(text)
           m == n + 1
           K == {i \in 1..m : Agree(text, i, S)}
<1>1. text \in Seq(S)
  BY SeqMonotonic
<1>2. ValuesIn(S)
  <2> SUFFICES ASSUME NEW name PROVE EnvVar(name) \in Seq(S)
    BY DEF ValuesIn
  <2>1. CASE name \in DOMAIN Environment
    <3>1. Environment[name] \in Seq(Elements(Environment[name]))
      BY <2>1, EnvironmentAssumption
    <3>2. Elements(Environment[name]) \subseteq S
      BY <2>1
    <3>3. Environment[name] \in Seq(S)
      <4> HIDE DEF S, Elements
      <4> QED BY <3>1, <3>2, SeqMonotonic
    <3> QED BY <2>1, <3>3 DEF EnvVar
  <2>2. CASE name \notin DOMAIN Environment
    <3> HIDE DEF S
    <3> QED BY <2>2, EmptySeq DEF EnvVar
  <2> QED BY <2>1, <2>2
<1> HIDE DEF S
<1>3. n \in Nat
  BY LenProperties
<1>4. \A k \in 1..m : k \in K
  <2>1. 1 \in Int /\ m \in Int
    BY <1>3
  <2>2. ASSUME NEW k \in 1..m, \A l \in 1..m : l > k => l \in K PROVE k \in K
    <3>1. \A l \in 1..n + 1 : l > k => Agree(text, l, S)
      BY <2>2
    <3>2. Agree(text, k, S)
      BY <1>1, <1>2, <3>1, TurnAgrees
    <3> QED BY <3>2
  <2>3. \A k \in 1..m : (\A l \in 1..m : l > k => l \in K) => k \in K
    BY <2>2
  <2> HIDE DEF K, m
  <2> QED BY <2>1, <2>3, Descends
<1>5. Agree(text, 1, S)
  BY <1>3, <1>4
<1> DEFINE scan == ScanOf(text)
           rest == RestOf(text)
<1>6. ExpandEnv(text) = rest[1] /\ Scanned(text) = scan[n] /\ scan[0] = Idle0
  BY ScanDefined, RestDefined
<1>7. scan[1 - 1] = Idle0
  BY <1>6
<1>8. scan[n] \in Scanner(S)
  BY <1>1, <1>2, <1>3, ScanTyped
<1> HIDE DEF scan, rest
<1>9. /\ rest[1].ok <=> ~scan[n].inside
      /\ rest[1].ok => rest[1].text \in Seq(S) /\ scan[n].out = <<>> \o rest[1].text
  BY <1>5, <1>7 DEF Agree, scan, rest, Idle0
<1>10. rest[1].ok => rest[1].text = scan[n].out
  BY <1>9, ConcatEmptySeq
<1> QED BY <1>6, <1>9, <1>10 DEF ExpandedLikeScan

-----------------------------------------------------------------------------
(* The specification.                                                      *)

\* The inputs of RiskMath and ConfigLoad do not change (MCPure).
LEMMA InputsStay == Spec => [](input \in Inputs \union {NoInput})
<1>1. Init => input \in Inputs \union {NoInput}
  BY DEF Init
<1>2. input \in Inputs \union {NoInput} /\ [Next]_vars => (input \in Inputs \union {NoInput})'
  BY DEF Next, vars
<1> QED BY <1>1, <1>2, PTL DEF Spec

\* The round-trip loss fits the u16 it is cast to (risk.rs:117-122).
THEOREM LossAlwaysFits == Spec => []LossFitsU16
<1>1. input \in Inputs \union {NoInput} => LossFitsU16
  BY LossFits DEF Inputs, NoInput, LossFitsU16
<1> QED BY <1>1, InputsStay, PTL

\* A fixed_usd copy stays within its budget (risk.rs:157-163).
THEOREM BudgetAlwaysKept == Spec => []BudgetKept
<1>1. input \in Inputs \union {NoInput} => BudgetKept
  <2> SUFFICES ASSUME input \in Inputs \union {NoInput}, input.part = "risk",
                      NEW value \in 1..6
               PROVE  FixedUsdWithinBudget(value, input.out, input.more)
    BY DEF BudgetKept
  <2>1. input.out \in 0..Limit /\ input.more \in 0..Limit
    BY DEF Inputs, NoInput
  <2>2. value \in Nat /\ input.out \in Nat /\ input.more \in Nat
    BY <2>1, BoundsAssumption
  <2> QED BY <2>2, FixedUsdNeverOverspends
<1> QED BY <1>1, InputsStay, PTL

\* Stream and handler agree on the wallets (config.rs:164-167, geyser.rs:127-138).
THEOREM AlwaysDispatched == Spec => []SubscribedIsDispatched
<1>1. input \in Inputs \union {NoInput} => SubscribedIsDispatched
  <2> SUFFICES ASSUME input \in Inputs \union {NoInput}, input.part = "wallets"
               PROVE  DispatchMatches(input.wallets, {"w1", "w2", "junk"})
    BY DEF SubscribedIsDispatched
  <2>1. input.wallets \in UNION {[1..n -> Entry] : n \in 0..2}
    BY DEF Inputs, NoInput
  <2>2. PICK n \in 0..2 : input.wallets \in [1..n -> Entry]
    BY <2>1
  <2>3. input.wallets \in Seq(Entry)
    BY <2>2
  <2> QED BY <2>3, DispatchIsExact
<1> QED BY <1>1, InputsStay, PTL

\* The configuration's text is expanded once (config.rs:170-188).
THEOREM AlwaysExpandedOnce == Spec => []EnvExpandedOnce
<1>1. input \in Inputs \union {NoInput} => EnvExpandedOnce
  <2> SUFFICES ASSUME input \in Inputs \union {NoInput}, input.part = "env"
               PROVE  ExpandedLikeScan(input.text)
    BY DEF EnvExpandedOnce
  <2> DEFINE T == {OPEN, CLOSE, "A", "B"}
  <2>1. input.text \in UNION {[1..n -> T] : n \in 0..MaxText}
    BY DEF Inputs, NoInput
  <2>2. PICK n \in 0..MaxText : input.text \in [1..n -> T]
    BY <2>1
  <2>3. input.text \in Seq(T)
    BY <2>2
  <2> QED BY <2>3, ExpansionIsOneScan
<1> QED BY <1>1, InputsStay, PTL

\* The books of every transaction balance.
LEMMA BooksBalance == Spec => []TxInv
<1>1. Init => TxInv
  BY TxInitHolds DEF Init
<1>2. TxInv /\ [Next]_vars => TxInv'
  <2> SUFFICES ASSUME TxInv, [Next]_vars PROVE TxInv'
    OBVIOUS
  <2>1. [TxNext]_txvars
    BY DEF Next, vars
  <2> QED BY <2>1, StepKeepsBooks
<1> QED BY <1>1, <1>2, PTL DEF Spec

\* The state of a transaction keeps its types, and the amounts of a reported
\* swap are positive (Context.signer_token_delta, decoder/mod.rs).
THEOREM TxTypesHold == Spec => []TxTypeOK
BY TypesHold, BooksBalance, PTL

\* Whatever mix of instructions a transaction holds and whichever decoder
\* answers, a leg in a token is the wallet's own change of that token.
THEOREM LegsAlwaysReal == Spec => []LegsAreReal
BY LegsHold, BooksBalance, PTL

\* The one trade of a transaction is never reported as another, or inverted.
THEOREM AlwaysNeverInverted == Spec => []NeverInverted
BY NeverInvertedHolds, BooksBalance, PTL

\* The SOL leg is off by no more than the SOL that moved beside the trade.
THEOREM SolLegAlwaysBounded == Spec => []SolLegBounded
BY SolLegHolds, BooksBalance, PTL

\* A SOL buy that leaves the wallet with less SOL is reported as a buy.
THEOREM SolBuysAlwaysSeen == Spec => []SolBuysSeen
BY SolBuysHold, BooksBalance, PTL

\* What is reported of a transaction without a trade is within its fees,
\* deposits and the threshold.
THEOREM PhantomsAlwaysSmall == Spec => []PhantomsAreSmall
BY PhantomsHold, BooksBalance, PTL

==============================================================================
