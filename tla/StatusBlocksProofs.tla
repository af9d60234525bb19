-------------------------- MODULE StatusBlocksProofs --------------------------
(***************************************************************************)
(* The routing of blocks, proved for any layouts, numbers of modules and   *)
(* cuts.                                                                   *)
(*                                                                         *)
(* An answer says what its length says: a length that divides both ways is *)
(* read as the wrong layout (MCStatusBlocksAlias).  Telling excludes just  *)
(* those; then the slices are the blocks, and the addresses of a whole     *)
(* answer are those of the blocks that arrived.                            *)
(***************************************************************************)
EXTENDS StatusBlocks, TLAPS

L == INSTANCE ListsProofs

-------------------------------------------------------------------------------
(***************************************************************************)
(* Division.                                                               *)
(***************************************************************************)
\* q whole blocks and r bytes of the next one.
LEMMA DivMod ==
  ASSUME NEW len \in Nat, len > 0, NEW q \in Nat, NEW r \in 0..(len - 1)
  PROVE  (q * len + r) \div len = q /\ (q * len + r) % len = r
  OBVIOUS

\* Any number of bytes is a number of blocks and a rest.
LEMMA BlocksAndRest ==
  ASSUME NEW len \in Nat, len > 0, NEW a \in Nat
  PROVE  a = (a \div len) * len + (a % len) /\ a % len \in 0..(len - 1) /\ a \div len \in Nat
  OBVIOUS

\* A cut leaves one whole block less.
LEMMA CutBlocks ==
  ASSUME NEW len \in Nat, len > 0, NEW b \in Nat, b > 0, NEW c \in 0..(len - 1)
  PROVE  /\ b * len - c \in Nat /\ b * len - c > 0
         /\ c = 0 => (b * len - c) \div len = b /\ (b * len - c) % len = 0
         /\ c # 0 => (b * len - c) \div len = b - 1 /\ (b * len - c) % len # 0
  <1>1. b * len = (b - 1) * len + len /\ (b - 1) * len \in Nat /\ b * len \in Nat
    OBVIOUS
  <1>2. CASE c = 0
    <2>1. b * len - c = b * len + 0  BY <1>1, <1>2
    <2>2. (b * len + 0) \div len = b /\ (b * len + 0) % len = 0  BY DivMod
    <2> QED  BY <1>1, <1>2, <2>1, <2>2
  <1>3. CASE c # 0
    <2>1. b * len - c = (b - 1) * len + (len - c) /\ len - c \in 0..(len - 1) /\ b - 1 \in Nat
      BY <1>1, <1>3
    <2>2. /\ ((b - 1) * len + (len - c)) \div len = b - 1
          /\ ((b - 1) * len + (len - c)) % len = len - c
      BY <2>1, DivMod
    <2> QED  BY <1>1, <1>3, <2>1, <2>2
  <1> QED  BY <1>2, <1>3

-------------------------------------------------------------------------------
(***************************************************************************)
(* The slices of an answer.                                                *)
(***************************************************************************)
\* Nothing in the answer's length passes for another layout: legacy blocks are as long
\* as they claim and not cut to a number of full ones, and full blocks do not divide
\* by what they claim.
Telling(s) ==
    \/ /\ s.claim = s.length /\ s.length <= END
       /\ s.cut # 0 /\ s.length < END => Len(s) % END # 0
    \/ /\ s.length = END
       /\ s.claim = 0 \/ s.claim >= END \/ Len(s) % s.claim # 0

\* What an answer is made of.
LEMMA StatusIs ==
  ASSUME NEW s \in Statuses
  PROVE  /\ s.length \in Nat /\ s.length > 1 /\ s.claim \in Nat
         /\ s.blocks \in Nat /\ s.blocks > 0 /\ s.mods \in Nat /\ s.blocks <= s.mods
         /\ s.cut \in 0..(s.length - 1) /\ s.noise \in Nat
         /\ END \in Nat /\ END > 1 /\ MinStatusLen \in Nat
  <1>1. \E l \in Layouts : s \in UNION {Answers(l, n) : n \in ModuleCounts \ {0}}  BY DEF Statuses
  <1>2. PICK l \in Layouts, n \in ModuleCounts \ {0} : s \in Answers(l, n)  BY <1>1
  <1>3. n \in Nat /\ Noise \subseteq Nat  BY LayoutsAssumption
  <1>4. l.length \in Nat /\ l.length > 1 /\ l.claim \in Nat /\ l.cuts \subseteq 0..(l.length - 1)
        /\ END \in Nat /\ END > 1 /\ MinStatusLen \in Nat
    BY LayoutsAssumption DEF ADDR
  <1>5. s.length = l.length /\ s.claim = l.claim /\ s.mods = n /\ s.blocks \in 1..n /\ s.cut \in l.cuts
        /\ s.noise \in Noise
    BY <1>2 DEF Answers
  <1>6. s.blocks \in Nat /\ s.blocks > 0 /\ s.blocks <= s.mods  BY <1>3, <1>5
  <1>7. s.cut \in 0..(s.length - 1)  BY <1>4, <1>5
  <1> QED  BY <1>3, <1>4, <1>5, <1>6, <1>7

\* How many of the blocks are whole.
Whole(s) == IF s.cut = 0 THEN s.blocks ELSE s.blocks - 1

\* The padded length is a number of full blocks just when no block was cut, and the
\* slices of such an answer, or of one of full blocks, are the whole blocks.
LEMMA SlicesAreBlocks ==
  ASSUME NEW s \in Statuses, Telling(s)
  PROVE  /\ PaddedLen(s) % END = 0 <=> s.cut = 0
         /\ s.cut = 0 \/ s.length = END =>
                Step(s) = s.length /\ PaddedLen(s) \div END = Whole(s)
  <1> DEFINE len == s.length  b == s.blocks  c == s.cut  n == b * len - c
  <1>1. /\ len \in Nat /\ len > 1 /\ s.claim \in Nat /\ b \in Nat /\ b > 0 /\ c \in 0..(len - 1)
        /\ END \in Nat /\ END > 1
    BY StatusIs
  <1>2. Len(s) = n  BY DEF Len
  <1>3. /\ n \in Nat /\ n > 0
        /\ c = 0 => n \div len = b /\ n % len = 0
        /\ c # 0 => n \div len = b - 1 /\ n % len # 0
    <2> HIDE DEF len, b, c
    <2> QED  BY <1>1, CutBlocks
  <1>4. Telling(s) <=> \/ /\ s.claim = len /\ len <= END
                          /\ c # 0 /\ len < END => n % END # 0
                       \/ /\ len = END
                          /\ s.claim = 0 \/ s.claim >= END \/ n % s.claim # 0
    BY <1>2 DEF Telling
  <1>5. IsPadded(s) <=> s.claim # 0 /\ n % s.claim = 0 /\ s.claim < END
    BY <1>2, <1>3 DEF IsPadded
  <1>6. Whole(s) = IF c = 0 THEN b ELSE b - 1  BY DEF Whole
  <1> HIDE DEF len, b, c, n
  <1>7. CASE IsPadded(s)
    <2>1. s.claim = len /\ len < END /\ c = 0
      BY <1>1, <1>3, <1>4, <1>5, <1>7
    <2>2. PaddedLen(s) = b * END
      BY <1>2, <1>3, <1>7, <2>1 DEF PaddedLen
    <2>3. (b * END + 0) \div END = b /\ (b * END + 0) % END = 0 /\ b * END + 0 = b * END
      <3>1. 0 \in 0..(END - 1) /\ END > 0 /\ b * END \in Nat  BY <1>1
      <3>2. (b * END + 0) \div END = b /\ (b * END + 0) % END = 0  BY <1>1, <3>1, DivMod
      <3> QED  BY <3>1, <3>2
    <2>4. Step(s) = len  BY <1>7, <2>1 DEF Step
    <2> QED  BY <1>6, <2>1, <2>2, <2>3, <2>4 DEF len, c
  <1>8. CASE ~IsPadded(s)
    <2>1. PaddedLen(s) = n /\ Step(s) = END  BY <1>2, <1>8 DEF PaddedLen, Step
    <2>2. len < END => s.claim = len /\ c # 0 /\ n % END # 0
      BY <1>1, <1>3, <1>4, <1>5, <1>8
    <2>3. len = END \/ len < END  BY <1>1, <1>4
    <2>4. CASE len = END
      BY <1>3, <1>6, <2>1, <2>4 DEF len, c
    <2>5. CASE len < END
      <3>1. len # END  BY <1>1, <2>5
      <3> QED  BY <2>1, <2>2, <2>5, <3>1 DEF len, c
    <2> QED  BY <2>3, <2>4, <2>5
  <1> QED  BY <1>7, <1>8

\* Slice i of a whole answer names module i + 1, and no other slice does.
LEMMA SlicesAreNamed ==
  ASSUME NEW s \in Statuses, Telling(s), s.cut = 0 \/ s.length = END
  PROVE  /\ SlicesOf(s) = 0..(Whole(s) - 1) /\ Reported(s) = 1..Whole(s) /\ Whole(s) \in Nat
         /\ \A i \in SlicesOf(s) : AddressOf(s, i) = i + 1
         /\ \A m \in Nat : SlicesFor(s, m) = IF m \in Reported(s) THEN {m - 1} ELSE {}
  <1>1. /\ s.length \in Nat /\ s.length > 1 /\ s.blocks \in Nat /\ s.blocks > 0
    BY StatusIs
  <1>2. Step(s) = s.length /\ PaddedLen(s) \div END = Whole(s)  BY SlicesAreBlocks
  <1>3. Whole(s) \in Nat /\ Reported(s) = 1..Whole(s)  BY <1>1 DEF Whole, Reported
  <1>4. SlicesOf(s) = 0..(Whole(s) - 1)  BY <1>2 DEF SlicesOf
  <1>5. ASSUME NEW i \in SlicesOf(s)  PROVE AddressOf(s, i) = i + 1
    <2>1. i \in Nat  BY <1>3, <1>4
    <2> DEFINE len == s.length  p == i * len + 1
    <2>2. len \in Nat /\ len > 0 /\ 1 \in 0..(len - 1)  BY <1>1
    <2>3. AddressOf(s, i) = IF p % len = 1 THEN (p \div len) + 1 ELSE s.noise
      BY <1>2 DEF AddressOf, AddressByte, ADDR
    <2> HIDE DEF len
    <2>4. p \div len = i /\ p % len = 1  BY <2>1, <2>2, DivMod
    <2> QED  BY <2>3, <2>4
  <1>6. ASSUME NEW m \in Nat  PROVE SlicesFor(s, m) = IF m \in Reported(s) THEN {m - 1} ELSE {}
    <2>1. SlicesFor(s, m) = {i \in SlicesOf(s) : i + 1 = m}  BY <1>5 DEF SlicesFor
    <2> QED  BY <1>3, <1>4, <2>1
  <1> QED  BY <1>3, <1>4, <1>5, <1>6

\* status_addresses: the modules of a whole answer, none of a cut one.
LEMMA AddressesAre ==
  ASSUME NEW s \in Statuses, Telling(s)
  PROVE  Addresses(s) = IF s.cut = 0 THEN Reported(s) ELSE {}
  <1>1. PaddedLen(s) % END = 0 <=> s.cut = 0  BY SlicesAreBlocks
  <1>2. CASE s.cut = 0
    <2>1. /\ SlicesOf(s) = 0..(Whole(s) - 1) /\ Reported(s) = 1..Whole(s) /\ Whole(s) \in Nat
          /\ \A i \in SlicesOf(s) : AddressOf(s, i) = i + 1
      BY <1>2, SlicesAreNamed
    <2>2. Addresses(s) = {i + 1 : i \in SlicesOf(s)}  BY <1>1, <1>2, <2>1 DEF Addresses
    <2>3. \A m : m \in {i + 1 : i \in 0..(Whole(s) - 1)} <=> m \in 1..Whole(s)
      <3>1. \A m \in 1..Whole(s) : m - 1 \in 0..(Whole(s) - 1) /\ m = (m - 1) + 1  BY <2>1
      <3>2. \A i \in 0..(Whole(s) - 1) : i + 1 \in 1..Whole(s)  BY <2>1
      <3> QED  BY <3>1, <3>2
    <2> QED  BY <1>2, <2>1, <2>2, <2>3
  <1>3. CASE s.cut # 0  BY <1>1, <1>3 DEF Addresses
  <1> QED  BY <1>2, <1>3

-------------------------------------------------------------------------------
(***************************************************************************)
(* The inventory check.                                                    *)
(***************************************************************************)
\* The verdict weighs the addresses of this answer against this inventory: a new
\* inventory is only read with the old verdict gone.
VerdictInv ==
    /\ status \in Statuses /\ Telling(status)
    /\ verdict = "raised" => ~(Addresses(status) \subseteq seen)
    /\ verdict = "accepted" /\ Len(status) >= MinStatusLen => Addresses(status) \subseteq seen

\* No verdict was given yet.
LEMMA VerdictAtFirst == Init /\ Telling(status) => VerdictInv
  BY DEF Init, VerdictInv

\* Every step keeps a verdict with the answer and the inventory it is about.
LEMMA VerdictStays == VerdictInv /\ [Next]_vars => VerdictInv'
  <1> SUFFICES ASSUME VerdictInv, [Next]_vars  PROVE VerdictInv'  OBVIOUS
  <1>1. CASE Rebuild
    <2>1. status' = status /\ verdict' = "none"  BY <1>1 DEF Rebuild
    <2> QED  BY <2>1 DEF VerdictInv, Statuses, Answers, Telling, Len
  <1>2. CASE CheckInventory
    <2>1. /\ status' = status /\ seen' = seen
          /\ verdict' = IF Len(status) >= MinStatusLen /\ ~(Addresses(status) \subseteq seen)
                        THEN "raised" ELSE "accepted"
      BY <1>2 DEF CheckInventory
    <2> QED  BY <2>1 DEF VerdictInv
  <1>3. CASE DistributeStatus \/ UNCHANGED vars
    <2>1. status' = status /\ seen' = seen /\ verdict' = verdict  BY <1>3 DEF DistributeStatus, vars
    <2> QED  BY <2>1 DEF VerdictInv
  <1> QED  BY <1>1, <1>2, <1>3 DEF Next

\* The build is refused only for a module whose whole block is in the answer and which
\* the inventory does not mention: no address is invented by a cut or a padding.
THEOREM RefusalsAreJustified == Spec /\ Telling(status) => []NoFalseAlarm
  <1>1. VerdictInv => NoFalseAlarm
    <2> SUFFICES ASSUME VerdictInv, verdict = "raised"  PROVE \E m \in Reported(status) : m \notin seen
      BY DEF NoFalseAlarm
    <2>1. Addresses(status) \subseteq Reported(status)  BY AddressesAre DEF VerdictInv
    <2> QED  BY <2>1 DEF VerdictInv
  <1> QED  BY <1>1, VerdictAtFirst, VerdictStays, PTL DEF Spec

\* No module that an answer of whole blocks carries is missing from an inventory the
\* build accepted.
THEOREM InventoriesAreComplete == Spec /\ Telling(status) => []NothingMissed
  <1>1. VerdictInv => NothingMissed
    BY AddressesAre DEF VerdictInv, NothingMissed
  <1> QED  BY <1>1, VerdictAtFirst, VerdictStays, PTL DEF Spec

-------------------------------------------------------------------------------
(***************************************************************************)
(* Types, and where the blocks go.                                         *)
(***************************************************************************)
\* The last of some slices, as distribute_status writes them in order.
LEMMA LastSlice ==
  ASSUME NEW n \in Nat, NEW S \in SUBSET (0..(n - 1)), S # {}
  PROVE  \E i \in S : \A j \in S : j <= i
  <1> DEFINE T == {i + 1 : i \in S}
  <1>1. T \in SUBSET (1..n) /\ T # {}  OBVIOUS
  <1>2. PICK k \in T : \A j \in T : j <= k  BY <1>1, L!LastPosition
  <1>3. PICK i \in S : k = i + 1  BY <1>2
  <1>4. \A j \in S : j + 1 <= i + 1  BY <1>2, <1>3
  <1> QED  BY <1>3, <1>4

\* What a slice of an answer holds: at least one byte, at most a full block, and it
\* starts within the answer.  This needs no telling length.
LEMMA SliceIsInside ==
  ASSUME NEW s \in Statuses, NEW i \in SlicesOf(s)
  PROVE  /\ Slice(s, i) \in [start : 0..Len(s), bytes : 1..END]
         /\ \E k \in Nat : SlicesOf(s) = 0..(k - 1)
  <1> DEFINE n == Len(s)  step == Step(s)  k == n \div step
  <1>1. /\ s.length \in Nat /\ s.length > 1 /\ s.claim \in Nat /\ s.blocks \in Nat /\ s.blocks > 0
        /\ s.cut \in 0..(s.length - 1) /\ END \in Nat /\ END > 1
    BY StatusIs
  <1>2. n \in Nat
    <2> DEFINE len == s.length  b == s.blocks  c == s.cut
    <2>1. len \in Nat /\ len > 0 /\ b \in Nat /\ b > 0 /\ c \in 0..(len - 1)  BY <1>1
    <2>2. n = b * len - c  BY DEF Len
    <2> HIDE DEF n, len, b, c
    <2> QED  BY <2>1, <2>2, CutBlocks
  <1>3. step \in 1..END  BY <1>1 DEF Step, IsPadded
  <1>4. SlicesOf(s) = 0..(k - 1)
    <2>1. CASE IsPadded(s)
      <3> DEFINE q == n \div s.claim
      <3>1. PaddedLen(s) = q * END /\ k = q  BY <2>1 DEF PaddedLen, Step
      <3>2. q \in Nat
        <4> DEFINE d == s.claim
        <4>1. d \in Nat /\ d > 0  BY <1>1, <2>1 DEF IsPadded
        <4> HIDE DEF n, d
        <4>2. n \div d \in Nat  BY <1>2, <4>1, BlocksAndRest
        <4> QED  BY <4>2 DEF d
      <3> HIDE DEF q
      <3>3. (q * END + 0) \div END = q /\ q * END + 0 = q * END
        <4>1. 0 \in 0..(END - 1) /\ END > 0 /\ q * END \in Nat  BY <1>1, <3>2
        <4> QED  BY <1>1, <3>2, <4>1, DivMod
      <3> QED  BY <3>1, <3>3 DEF SlicesOf
    <2>2. CASE ~IsPadded(s)  BY <2>2 DEF SlicesOf, PaddedLen, Step
    <2> QED  BY <2>1, <2>2
  <1> HIDE DEF n, step
  <1>5. n = k * step + (n % step) /\ n % step \in 0..(step - 1) /\ k \in Nat
    <2>1. step \in Nat /\ step > 0  BY <1>1, <1>3
    <2> QED  BY <1>2, <2>1, BlocksAndRest
  <1> HIDE DEF k
  <1>6. i \in Nat /\ i < k  BY <1>4, <1>5
  <1>7. i * step \in Nat /\ i * step <= k * step /\ k * step \in Nat
    <2>1. step \in Nat  BY <1>1, <1>3
    <2> QED  BY <1>5, <1>6, <2>1
  <1>8. i * step \in 0..n  BY <1>2, <1>5, <1>7
  <1> QED  BY <1>3, <1>4, <1>5, <1>8 DEF Slice, n, step

\* A module's state is its old one or a slice of the answer.
LEMMA AppliedIs ==
  ASSUME status \in Statuses, NEW m
  PROVE  Applied(m) = Old \/ Applied(m) \in [start : 0..Len(status), bytes : 1..END]
  <1> DEFINE slices == SlicesFor(status, m)
             Inside(slice) == slice \in [start : 0..Len(status), bytes : 1..END]
  <1>1. CASE slices = {}  BY <1>1 DEF Applied
  <1>2. CASE slices # {}
    <2> DEFINE last == CHOOSE i \in slices : \A j \in slices : j <= i
    <2>1. Applied(m) = Slice(status, last)  BY <1>2 DEF Applied
    <2>2. slices \subseteq SlicesOf(status)  BY DEF SlicesFor
    <2>3. \A i \in SlicesOf(status) : Inside(Slice(status, i))  BY SliceIsInside
    <2> HIDE DEF Inside, slices
    <2>4. PICK k \in Nat : SlicesOf(status) = 0..(k - 1)
      <3>1. PICK i : i \in SlicesOf(status)  BY <1>2, <2>2
      <3> QED  BY <3>1, SliceIsInside
    <2>5. \E i \in slices : \A j \in slices : j <= i  BY <1>2, <2>2, <2>4, LastSlice
    <2>6. last \in slices  BY <2>5
    <2> HIDE DEF last
    <2>7. Inside(Applied(m))  BY <2>1, <2>2, <2>3, <2>6
    <2> QED  BY <2>7 DEF Inside
  <1> QED  BY <1>1, <1>2

\* The answer stays what it is, the inventory mentions modules of the hub only, and a
\* module's state is its old one or a slice of the answer.
THEOREM TypeCorrect == Spec => []TypeOK
  <1> DEFINE Content(c) ==
                /\ DOMAIN c = Modules(status)
                /\ \A m \in Modules(status) :
                      c[m] = Old \/ c[m] \in [start : 0..Len(status), bytes : 1..END]
  <1>1. ASSUME NEW s \in Statuses, NEW inventory \in Inventories(s.mods)
        PROVE  inventory.built \subseteq inventory.seen /\ inventory.seen \subseteq Modules(s)
    <2>1. s.mods \in Nat  BY StatusIs
    <2>2. PICK k \in 0..s.mods, skipped \in 0..1 : inventory = [seen |-> 1..k, built |-> (1 + skipped)..k]
      BY DEF Inventories
    <2>3. inventory.seen = 1..k /\ inventory.built = (1 + skipped)..k  BY <2>2
    <2> QED  BY <2>1, <2>3 DEF Modules
  <1>2. Init => TypeOK
    <2> SUFFICES ASSUME Init  PROVE TypeOK  OBVIOUS
    <2>1. built \subseteq seen /\ seen \subseteq Modules(status)  BY <1>1 DEF Init
    <2> QED  BY <2>1 DEF Init, TypeOK
  <1>3. TypeOK /\ [Next]_vars => TypeOK'
    <2> SUFFICES ASSUME TypeOK, [Next]_vars  PROVE TypeOK'  OBVIOUS
    <2>0. /\ status \in Statuses /\ built \subseteq seen /\ seen \subseteq Modules(status)
          /\ verdict \in {"none", "accepted", "raised"} /\ Content(content)
      BY DEF TypeOK
    <2>1. ASSUME status' = status, built' \subseteq seen', seen' \subseteq Modules(status),
                 verdict' \in {"none", "accepted", "raised"}, Content(content')
          PROVE  TypeOK'
      BY <2>0, <2>1 DEF TypeOK, Statuses, Answers, Modules, Len
    <2>2. CASE Rebuild
      <3>1. built' \subseteq seen' /\ seen' \subseteq Modules(status)  BY <1>1, <2>0, <2>2 DEF Rebuild
      <3>2. status' = status /\ content' = content /\ verdict' = "none"  BY <2>2 DEF Rebuild
      <3> HIDE DEF Content
      <3> QED  BY <2>0, <2>1, <3>1, <3>2
    <2>3. CASE CheckInventory
      <3>1. UNCHANGED <<status, built, seen, content>> /\ verdict' \in {"accepted", "raised"}
        BY <2>3 DEF CheckInventory
      <3> HIDE DEF Content
      <3> QED  BY <2>0, <2>1, <3>1
    <2>4. CASE DistributeStatus
      <3>1. /\ UNCHANGED <<status, built, seen, verdict>>
            /\ content' = [m \in Modules(status) |-> IF m \in built THEN Applied(m) ELSE Old]
        BY <2>4 DEF DistributeStatus
      <3>2. \A m : Applied(m) = Old \/ Applied(m) \in [start : 0..Len(status), bytes : 1..END]
        BY <2>0, AppliedIs
      <3>3. Content(content')  BY <3>1, <3>2
      <3> HIDE DEF Content
      <3> QED  BY <2>0, <2>1, <3>1, <3>3
    <2>5. CASE UNCHANGED vars
      <3> HIDE DEF Content
      <3> QED  BY <2>0, <2>1, <2>5 DEF vars
    <2> QED  BY <2>2, <2>3, <2>4, <2>5 DEF Next
  <1> QED  BY <1>2, <1>3, PTL DEF Spec

\* Every module of the model whose block arrived takes its state from exactly that
\* block, and the others keep theirs.
THEOREM BlocksFindTheirModules == Spec /\ Telling(status) => BlocksReachTheirModules
  <1> DEFINE Reached == DistributeStatus /\ (status.cut = 0 \/ status.length = END) =>
                \A m \in Modules(status) :
                    content'[m] = IF m \in built \cap Reported(status) THEN OwnBlock(m) ELSE Old
  <1>1. VerdictInv /\ [Next]_vars => [Reached]_vars
    <2> SUFFICES ASSUME VerdictInv, DistributeStatus, status.cut = 0 \/ status.length = END,
                        NEW m \in Modules(status)
                 PROVE  content'[m] = IF m \in built \cap Reported(status) THEN OwnBlock(m) ELSE Old
      OBVIOUS
    <2>1. status \in Statuses /\ Telling(status)  BY DEF VerdictInv
    <2>2. m \in Nat  BY <2>1, StatusIs DEF Modules
    <2>3. /\ \A n \in Nat : SlicesFor(status, n) = IF n \in Reported(status) THEN {n - 1} ELSE {}
          /\ Step(status) = status.length
      BY <2>1, SlicesAreBlocks, SlicesAreNamed
    <2>4. content'[m] = IF m \in built THEN Applied(m) ELSE Old  BY DEF DistributeStatus
    <2>5. CASE m \in Reported(status)
      <3> DEFINE i == m - 1
      <3>1. SlicesFor(status, m) = {i}  BY <2>2, <2>3, <2>5
      <3>2. i <= i  BY <2>2
      <3> HIDE DEF i
      <3>3. Applied(m) = Slice(status, i)  BY <3>1, <3>2 DEF Applied
      <3>4. Slice(status, i) = OwnBlock(m)  BY <2>3 DEF Slice, OwnBlock, i
      <3> QED  BY <2>4, <2>5, <3>3, <3>4
    <2>6. CASE m \notin Reported(status)
      <3>1. SlicesFor(status, m) = {}  BY <2>2, <2>3, <2>6
      <3> QED  BY <2>4, <2>6, <3>1 DEF Applied
    <2> QED  BY <2>5, <2>6
  <1>2. BlocksReachTheirModules <=> [][Reached]_vars  BY DEF BlocksReachTheirModules
  <1> QED  BY <1>1, <1>2, VerdictAtFirst, VerdictStays, PTL DEF Spec
===============================================================================
