--------------------------- MODULE MeasurementPath ---------------------------
(***************************************************************************)
(* A value's way from a meter's registers to ChirpStack: the profile an    *)
(* operator makes of a swept device (pi-scanner/app/inference.py,          *)
(* profile_emitter.py), its blob (device-profiles/profile_to_blob.py), the *)
(* node that reads and packs (meter.c, device_profile.c), and the decoder  *)
(* generated from the same profile (profile_to_decoder.py).                *)
(*                                                                         *)
(* One device, whose measurands sit in numbered slots of two input         *)
(* registers, and which answers a holding register too.  The meter is a    *)
(* number per slot, laid out as the device does.                           *)
(***************************************************************************)
EXTENDS Inference

CONSTANTS
    NSlots,      \* measurands of the device
    Device,      \* per slot, the [type, order, scale, offset] it really has
    Readings,    \* per slot, the numbers it may hold
    Losses,      \* sets of input registers that a sweep may miss
    Edits,       \* per slot, what the operator may enter; Nothing where he leaves
                 \* the type, the order or the accumulating mark as inferred
    HandWritten, \* profiles of the registry that were not generated
    Budget,      \* DR3_MAX - HEADER_LEN, 50
    MaxMeas,     \* DP_MAX_MEAS, 40
    NoKey,       \* a measurand the operator did not name
    Nothing

ASSUME MeasurementAssumption == {NSlots, Budget, MaxMeas} \subseteq Nat

Slots == 1..NSlots
WordOrders == DOMAIN ByteOrder

(* What registers of a type can hold; of a float, its bits. *)
Holds(type) == IF type = "float32" THEN Lo("i32")..Hi("i32") ELSE Lo(type)..Hi(type)

ASSUME DeviceAssumption ==
    /\ Device \in [Slots -> [type : Types, order : WordOrders, scale : Int, offset : Int]]
    /\ \A m \in Readings : m \in [Slots -> Int] /\ \A s \in Slots : m[s] \in Holds(Device[s].type)

ASSUME EditsAssumption ==
    \A edits \in Edits : \A s \in Slots :
        /\ edits[s].type \in Types \cup {Nothing} /\ edits[s].order \in WordOrders \cup {Nothing}
        /\ edits[s].scale \in Int /\ edits[s].offset \in Int

(* Fields that lie within a body of that length, each apart from the others. *)
Within(f, total) == f.offset + EncSize[f.enc] <= total
Apart(f, g) == f.offset + EncSize[f.enc] <= g.offset \/ g.offset + EncSize[g.enc] <= f.offset
LaidOut(fields, total) ==
    /\ total <= Budget
    /\ \A f \in DOMAIN fields : Within(fields[f], total)
    /\ \A f, g \in DOMAIN fields : f < g => Apart(fields[f], fields[g])

(* validate_profiles.py: there is a measurand, each in registers of the      *)
(* device, a field is of a measurand, and the body is as long as its fields  *)
(* need.  The committed profiles keep their fields apart.                    *)
ASSUME HandWrittenAssumption ==
    \A p \in HandWritten :
        /\ LaidOut(p.fields, p.total) /\ DOMAIN p.meas = 1..Len(p.meas) /\ Len(p.meas) \in Nat
        /\ p.total \in Nat /\ p.meas # <<>> /\ DOMAIN p.fields = 1..Len(p.fields) /\ Len(p.fields) \in Nat
        /\ \A i \in DOMAIN p.meas :
               /\ p.meas[i].slot \in Slots /\ p.meas[i].type \in Types /\ p.meas[i].order \in WordOrders
               /\ p.meas[i].scale \in Int /\ p.meas[i].offset \in Int
        /\ \A f \in DOMAIN p.fields :
               /\ p.fields[f].enc \in DOMAIN EncSize /\ {p.fields[f].offset, p.fields[f].scale} \subseteq Nat
               /\ \E i \in DOMAIN p.meas : p.fields[f].key = p.meas[i].key

VARIABLES
    node,    \* the profile the node has loaded from its blob
    meter,   \* the number in each slot when the node last read it
    shown    \* the object ChirpStack decoded from the last frame

vars == <<node, meter, shown>>

-----------------------------------------------------------------------------
Init == node = Nothing /\ meter = [s \in Slots |-> 0] /\ shown = Nothing

-----------------------------------------------------------------------------
(* The device: how a number lies in its registers. *)
Laid(n, device) ==
    LET d == Digits(n, 4)
        wire == CASE device.order = "ABCD" -> d
                  [] device.order = "CDAB" -> <<d[3], d[4], d[1], d[2]>>
                  [] device.order = "BADC" -> <<d[2], d[1], d[4], d[3]>>
                  [] device.order = "DCBA" -> <<d[4], d[3], d[2], d[1]>>
    IN  IF Registers(device.type) = 1 THEN <<n % Weight[2], 0>>
        ELSE <<wire[1] * Base + wire[2], wire[3] * Base + wire[4]>>

(* What a sweep finds of the device: words of the registers it did not miss. *)
Swept(m, lost) ==
    [fc \in {3, 4} |->
        IF fc = 3 THEN [a \in {0} |-> 1]
        ELSE [a \in (0..(2 * NSlots - 1)) \ lost |->
                 Laid(m[(a \div 2) + 1], Device[(a \div 2) + 1])[(a % 2) + 1]]]

-----------------------------------------------------------------------------
(* The profile *)

PayloadEncoding(m) ==
    IF m.accumulating THEN "u32" ELSE IF m.sample < 0 THEN "i16" ELSE "u16"
PayloadScale(scale) ==
    IF 0 < scale /\ scale <= Unit
    THEN LET p == HalfEven(Unit, scale) IN IF p > 1 THEN p ELSE 1
    ELSE 1

Field(m, offset) == [key |-> m.key, offset |-> offset, enc |-> PayloadEncoding(m),
                     scale |-> PayloadScale(m.scale)]
TightlyPacked(packed, m) ==
    [fields |-> Append(packed.fields, Field(m, packed.offset)), offset |-> packed.offset + 2]
PackField(packed, m) ==
    IF packed.offset + EncSize[PayloadEncoding(m)] > Budget THEN packed
    ELSE [fields |-> Append(packed.fields, Field(m, packed.offset)),
          offset |-> packed.offset + EncSize[PayloadEncoding(m)]]

(* pack_payload, measurand after measurand *)
Packed(named) ==
    FoldLeft(LAMBDA packed, m : IF m.include THEN PackField(packed, m) ELSE packed,
             [fields |-> <<>>, offset |-> 0], named)

Register(s) == 2 * (s - 1)
Edited(edit, inferred) == IF edit = Nothing THEN inferred ELSE edit

WithKey(all) == FoldLeft(LAMBDA named, m : IF m.key = NoKey THEN named ELSE Append(named, m),
                         <<>>, all)

(* apply_edits: an edit of a register that is no candidate is ignored.  What *)
(* the operator does not name is left out.                                   *)
Named(edits, candidates) ==
    LET all == [s \in Slots |->
            LET e == edits[s]  c == candidates[Register(s)] IN
            IF Register(s) \notin DOMAIN candidates THEN [key |-> NoKey]
            ELSE [key |-> e.key, slot |-> s, include |-> e.include, scale |-> e.scale, offset |-> e.offset,
                  type |-> Edited(e.type, c.type), order |-> Edited(e.order, c.order),
                  accumulating |-> Edited(e.accumulating, c.accumulating), sample |-> c.sample]]
    IN  WithKey(all)

(* assemble_profile *)
Measurands(named) ==
    [i \in DOMAIN named |-> [key |-> named[i].key, slot |-> named[i].slot, type |-> named[i].type,
                             order |-> named[i].order, offset |-> named[i].offset,
                             scale |-> IF named[i].scale = 0 THEN Unit ELSE named[i].scale]]
Assemble(named) ==
    LET packed == Packed(named)
    IN  [meas |-> Measurands(named), fields |-> packed.fields, total |-> packed.offset]

(* key_index of profile_from_json: the last measurand of that name. *)
OwnPosition(p, f) == CHOOSE i \in DOMAIN p.fields : p.fields[i] = f
ValueIndex(p, f) ==
    CHOOSE i \in DOMAIN p.meas :
        /\ p.meas[i].key = f.key
        /\ \A j \in DOMAIN p.meas : p.meas[j].key = f.key => j <= i

(* build_blob, prov-profile, dp_deserialize: too many measurands are        *)
(* refused.                                                                 *)
Load(p) ==
    /\ Len(p.meas) <= MaxMeas
    /\ node' = [meas |-> p.meas, total |-> p.total,
                fields |-> [f \in DOMAIN p.fields |->
                              [offset |-> p.fields[f].offset, enc |-> p.fields[f].enc,
                               scale |-> p.fields[f].scale, value |-> ValueIndex(p, p.fields[f])]],
                keys |-> [f \in DOMAIN p.fields |-> p.fields[f].key]]
    /\ shown' = Nothing
    /\ UNCHANGED meter

(* The profiles of the device that a sweep and an operator can make: at      *)
(* least one measurand is named and one is in the payload, or EmitError.     *)
(* Registers of another function code than the dominant one are no           *)
(* candidates, and so no slots.                                              *)
Onboarded ==
    LET sweeps == {Swept(m, lost) : m \in Readings, lost \in Losses}
        found == {Candidates(map[4]) : map \in {w \in sweeps : DominantFC(w) = 4}}
    IN  {p \in {Assemble(Named(edits, c)) : edits \in Edits, c \in found} :
             p.meas # <<>> /\ p.fields # <<>>}

Onboard == \E p \in Onboarded : Load(p)
TakeHandWritten == \E p \in HandWritten : Load(p)

-----------------------------------------------------------------------------
(* A cycle of the node *)

(* meter_read_profile: a failed read leaves a zero. *)
Values(m, failed) ==
    [i \in DOMAIN node.meas |->
        LET w == node.meas[i] IN
        IF w.slot \in failed THEN 0
        ELSE Decoded(Laid(m[w.slot], Device[w.slot]), w.type, w.order, w.scale, w.offset)]

FieldFits(f) == Within(f, node.total)

PutField(body, f, bytes) ==
    [k \in DOMAIN body |-> IF k \in (f.offset + 1)..(f.offset + EncSize[f.enc])
                           THEN bytes[k - f.offset] ELSE body[k]]

(* dp_encode_payload *)
Body(values, junk) ==
    FoldLeft(LAMBDA body, f : PutField(body, f, Digits(Wire(values[f.value], f.enc, f.scale, junk),
                                                       EncSize[f.enc])),
             [k \in 1..node.total |-> 0], node.fields)

(* decodeUplink: the last field of a name is what stays in the object. *)
LastField(key) ==
    CHOOSE f \in DOMAIN node.keys :
        node.keys[f] = key /\ \A g \in DOMAIN node.keys : node.keys[g] = key => g <= f
Object(body) ==
    [key \in {node.keys[f] : f \in DOMAIN node.keys} |->
        LET f == node.fields[LastField(key)] IN
        Reader(SubSeq(body, f.offset + 1, f.offset + EncSize[f.enc]), f.enc)]

Report(m, failed) ==
    /\ node # Nothing
    /\ \A f \in DOMAIN node.fields : FieldFits(node.fields[f])
    /\ meter' = m
    /\ \E junk \in {0, -1} : \* what a NaN converts to
         shown' = [stale |-> failed # {}, data |-> Object(Body(Values(m, failed), junk))]
    /\ UNCHANGED node

Next ==
    \/ Onboard
    \/ TakeHandWritten
    \/ \E m \in Readings, failed \in SUBSET Slots : Report(m, failed)

Spec == Init /\ [][Next]_vars

-----------------------------------------------------------------------------
TypeOK ==
    /\ node # Nothing => /\ DOMAIN node.keys = DOMAIN node.fields /\ node.meas # <<>>
                         /\ \A f \in DOMAIN node.fields : node.fields[f].value \in DOMAIN node.meas
    /\ meter \in [Slots -> Int]
    /\ shown # Nothing =>
         /\ node # Nothing /\ shown.stale \in BOOLEAN
         /\ DOMAIN shown.data = {node.keys[f] : f \in DOMAIN node.keys}
         /\ \A key \in DOMAIN shown.data :
                LET enc == node.fields[LastField(key)].enc
                IN  shown.data[key] \in Lo(enc)..Hi(enc)

(* The operator described measurand i as the device has it. *)
Described(i) ==
    LET w == node.meas[i]
    IN  [type |-> w.type, order |-> w.order, scale |-> w.scale, offset |-> w.offset] = Device[w.slot]
IsFloat(i) == node.meas[i].type = "float32"

(* What the meter displays for it, exactly: scaled, and with its offset. *)
Scaled(i, m) ==
    LET w == node.meas[i]  n == m[w.slot]
    IN  ((IF IsFloat(i) THEN (n * Unit) \div 2 ELSE n * Unit) * w.scale) \div Unit
Displayed(i, m) == Scaled(i, m) + node.meas[i].offset
IsNaN(i, m) == IsFloat(i) /\ 2 * m[node.meas[i].slot] = -Weight[4]

(* No more digits than a float has, nor on the way to the field. *)
Precise(i, f) ==
    /\ Magnitude(meter[node.meas[i].slot]) < Exact
    /\ node.meas[i].offset = 0 \/ Magnitude(Scaled(i, meter)) <= Unit * Exact
    /\ Hi(f.enc) < Exact \/ Magnitude(Displayed(i, meter) * f.scale) < Unit * Exact

(* Of all the field can say, what is shown is nearest to what the meter     *)
(* displays: rounded, saturated, but never wrapped, never another register  *)
(* and never another word order (device_profile.h:92-93).                   *)
NearestShown ==
    shown # Nothing /\ ~shown.stale =>
        \A key \in DOMAIN shown.data :
            LET f == node.fields[LastField(key)]
                Of(i) == node.meas[i].key = key
                Miss(w, i) == Magnitude(w * Unit - Displayed(i, meter) * f.scale)
            IN  (\A i \in DOMAIN node.meas : Of(i) => Described(i) /\ ~IsNaN(i, meter) /\ Precise(i, f))
                => \E i \in DOMAIN node.meas :
                       /\ Of(i)
                       /\ \A w \in {shown.data[key] - 1, shown.data[key] + 1} \cap (Lo(f.enc)..Hi(f.enc)) :
                              Miss(shown.data[key], i) <= Miss(w, i)

(* Every field lies in the frame, apart from the others, and the frame fits *)
(* a DR3 uplink: the node never has to refuse a profile it has loaded.      *)
LayoutSound == node # Nothing => LaidOut(node.fields, node.total)

(* Between two frames that lack nothing, a value that rises is never shown  *)
(* to fall, however large it is: counters do not run backwards.             *)
NeverFalls ==
    [][ node' = node /\ shown # Nothing /\ shown' # Nothing /\ ~shown.stale /\ ~shown'.stale =>
            \A f \in DOMAIN node.fields :
                LET i == node.fields[f].value IN
                ( /\ f = LastField(node.keys[f]) /\ Described(i)
                  /\ ~IsNaN(i, meter) /\ ~IsNaN(i, meter')
                  /\ Displayed(i, meter) <= Displayed(i, meter') )
                => shown.data[node.keys[f]] <= shown'.data[node.keys[f]] ]_vars

(* profile_emitter.py:122: "the wire value keeps full precision (wire = eng *)
(* / measurand_scale = raw)": of a register that the operator described as  *)
(* it is, the two bytes of its field carry what the register held.          *)
KeepsRaw ==
    shown # Nothing /\ ~shown.stale =>
        \A f \in DOMAIN node.fields :
            LET i == node.fields[f].value  w == node.meas[i] IN
            ( /\ f = LastField(node.keys[f]) /\ Described(i) /\ w.type \in {"u16", "i16"}
              /\ 0 < w.scale /\ w.scale <= Unit /\ Unit % w.scale = 0 /\ w.offset = 0 )
            => shown.data[node.keys[f]] = meter[w.slot]
=============================================================================
