----------------------------- MODULE StatusBlocks -----------------------------
(***************************************************************************)
(* The compact status: one block per module, sliced by pad_sys_status,     *)
(* status_addresses and distribute_status (_parse_router.py), and weighed  *)
(* against the module inventory by _raise_on_incomplete_inventory          *)
(* (_setup.py).                                                            *)
(*                                                                         *)
(* The hub (external) sends mods blocks of length bytes each; the first    *)
(* byte of a block claims how long it is, the second names its module.     *)
(* The block of module m is the m-th; the answer may be cut.  Of the bytes *)
(* the model keeps where in the answer they stood: byte p is data unless   *)
(* p % length is one of the two.  Offsets and lengths are the code's.      *)
(***************************************************************************)
EXTENDS Integers

CONSTANTS
    END,            \* MStatIdx.END, the block length assumed downstream
    MinStatusLen,   \* _MIN_STATUS_LEN
    Layouts,        \* what hubs send: [length, claim, cuts]
    ModuleCounts,   \* numbers of modules behind the hub
    Noise,          \* values a data byte may have
    Old             \* a module's state from before this status

ADDR == 1

ASSUME LayoutsAssumption ==
    /\ END \in Nat /\ MinStatusLen \in Nat /\ ADDR < END
    /\ \A l \in Layouts : /\ l.length \in Nat /\ ADDR < l.length
                          /\ l.claim \in Nat
                          /\ l.cuts \subseteq 0..(l.length - 1)
    /\ ModuleCounts \subseteq Nat
    /\ Noise \subseteq Nat

VARIABLES
    status,     \* the answer: [length, claim, mods, blocks, cut, noise]
    seen,       \* addresses the inventory answer mentioned
    built,      \* those of them with a type the library models
    verdict,    \* "none", or how the build took the inventory
    content     \* per module, the bytes of the answer its state was read from

vars == <<status, seen, built, verdict, content>>

-------------------------------------------------------------------------------
(***************************************************************************)
(* The answer as bytes.                                                    *)
(***************************************************************************)
Modules(s) == 1..s.mods

\* The first s.blocks blocks arrived, the last of them without its last s.cut bytes.
Len(s) == s.blocks * s.length - s.cut

\* Modules whose whole block is in the answer.
Reported(s) == 1..(IF s.cut = 0 THEN s.blocks ELSE s.blocks - 1)

\* The value of byte p where it is read as an address.
AddressByte(s, p) == IF p % s.length = ADDR THEN (p \div s.length) + 1 ELSE s.noise

-------------------------------------------------------------------------------
(***************************************************************************)
(* pad_sys_status, status_addresses and distribute_status.                 *)
(***************************************************************************)
FaultPadsUnchecked(s) == Len(s) > 0 /\ s.claim # 0 /\ s.claim < END

\* The answer divides into shorter blocks, which are padded up to END.
IsPadded(s) ==
    /\ Len(s) > 0 /\ s.claim # 0
    /\ Len(s) % s.claim = 0
    /\ s.claim < END

PaddedLen(s) == IF IsPadded(s) THEN (Len(s) \div s.claim) * END ELSE Len(s)

FaultSteps(s) == END

\* Where block i of the padded status (from 0) starts in the answer, and how
\* many of the answer's bytes it holds before the zeros.
Step(s) == IF IsPadded(s) THEN s.claim ELSE END

SlicesOf(s) == 0..((PaddedLen(s) \div END) - 1)

AddressOf(s, i) == AddressByte(s, i * Step(s) + ADDR)

FaultInventsAddresses(s) == {AddressOf(s, i) : i \in SlicesOf(s)}

\* status_addresses
Addresses(s) ==
    IF PaddedLen(s) % END # 0 THEN {} ELSE {AddressOf(s, i) : i \in SlicesOf(s)}

\* The bytes distribute_status hands to apply_status: the last slice wins that
\* names the module.
SlicesFor(s, m) == {i \in SlicesOf(s) : AddressOf(s, i) = m}

Slice(s, i) == [start |-> i * Step(s), bytes |-> Step(s)]

-------------------------------------------------------------------------------
\* What arrives of the answer of n modules in layout l.
Answers(l, n) ==
    [length : {l.length}, claim : {l.claim}, mods : {n}, blocks : 1..n, cut : l.cuts, noise : Noise]

Statuses == UNION {UNION {Answers(l, n) : n \in ModuleCounts \ {0}} : l \in Layouts}

TypeOK ==
    /\ status \in Statuses
    /\ built \subseteq seen /\ seen \subseteq Modules(status)
    /\ verdict \in {"none", "accepted", "raised"}
    /\ DOMAIN content = Modules(status)
    /\ \A m \in Modules(status) :
          content[m] = Old \/ content[m] \in [start : 0..Len(status), bytes : 1..END]

\* The inventory answer may break off after any entry, and the first module may
\* be of a type the library skips.
Inventories(n) == {[seen |-> 1..k, built |-> (1 + skipped)..k] : k \in 0..n, skipped \in 0..1}

Init ==
    /\ status \in Statuses
    /\ \E inventory \in Inventories(status.mods) :
          seen = inventory.seen /\ built = inventory.built
    /\ verdict = "none"
    /\ content = [m \in Modules(status) |-> Old]

\* The consumer builds again.
Rebuild ==
    /\ verdict = "raised"
    /\ verdict' = "none"
    /\ \E inventory \in Inventories(status.mods) :
          seen' = inventory.seen /\ built' = inventory.built
    /\ UNCHANGED <<status, content>>

FaultWeighsBuilt ==
    /\ verdict = "none"
    /\ verdict' = IF Len(status) >= MinStatusLen /\ ~(Addresses(status) \subseteq built)
                  THEN "raised" ELSE "accepted"
    /\ UNCHANGED <<status, seen, built, content>>

\* _raise_on_incomplete_inventory, in the build.
CheckInventory ==
    /\ verdict = "none"
    /\ verdict' = IF Len(status) >= MinStatusLen /\ ~(Addresses(status) \subseteq seen)
                  THEN "raised" ELSE "accepted"
    /\ UNCHANGED <<status, seen, built, content>>

\* The state of module m after the slices were applied.
Applied(m) ==
    LET slices == SlicesFor(status, m)
    IN  IF slices = {} THEN Old
        ELSE Slice(status, CHOOSE i \in slices : \A j \in slices : j <= i)

\* A block that names no module of the model is kept instead of skipped.
FaultKeepsUnknown ==
    /\ verdict = "accepted"
    /\ content' = [m \in Modules(status) \cup {AddressOf(status, i) : i \in SlicesOf(status)} |->
                      Applied(m)]
    /\ UNCHANGED <<status, seen, built, verdict>>

\* distribute_status, at the end of the build or in a poll.
DistributeStatus ==
    /\ verdict = "accepted"
    /\ content' = [m \in Modules(status) |-> IF m \in built THEN Applied(m) ELSE Old]
    /\ UNCHANGED <<status, seen, built, verdict>>

Next == Rebuild \/ CheckInventory \/ DistributeStatus

Spec == Init /\ [][Next]_vars

-------------------------------------------------------------------------------
(***************************************************************************)
(* Properties.                                                             *)
(***************************************************************************)
\* The build is refused only for a module whose whole block is in the answer
\* and which the inventory does not mention: no address is invented, neither by
\* a cut nor by a padding.
NoFalseAlarm ==
    verdict = "raised" => \E m \in Reported(status) : m \notin seen

\* An answer cut between blocks, or not at all, is a full witness: no module it
\* carries is missing from an inventory the build accepted.
NothingMissed ==
    verdict = "accepted" /\ status.cut = 0 /\ Len(status) >= MinStatusLen
        => Reported(status) \subseteq seen

\* Every module of the model whose block arrived takes its state from exactly
\* that block, and the others keep theirs.  Stated for answers cut between
\* blocks or made of full-length ones: distribute_status does not have the
\* whole-blocks check of status_addresses.
OwnBlock(m) == [start |-> (m - 1) * status.length, bytes |-> status.length]

BlocksReachTheirModules ==
    [][DistributeStatus /\ (status.cut = 0 \/ status.length = END) =>
          \A m \in Modules(status) :
              content'[m] = IF m \in built \cap Reported(status) THEN OwnBlock(m) ELSE Old]_vars
===============================================================================
