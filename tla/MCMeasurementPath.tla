------------------------- MODULE MCMeasurementPath -------------------------
(***************************************************************************)
(* A device with a counter, a signed register and a float, and a base of 4 *)
(* instead of 256: words below 16, floats of 6 significant bits.           *)
(***************************************************************************)
EXTENDS MeasurementPath

MCDevice == <<[type |-> "u32", order |-> "CDAB", scale |-> 10, offset |-> 0],
              [type |-> "i16", order |-> "ABCD", scale |-> 5, offset |-> 0],
              [type |-> "float32", order |-> "DCBA", scale |-> 10, offset |-> 0]>>

(* Zero, small, at the limits of a word, past what a float keeps, at the    *)
(* limits of two words; the last float is a NaN.                            *)
MCReadings ==
    {<<0, 0, 0>>, <<1, 3, 1>>, <<15, 7, 5>>, <<16, -1, -3>>, <<63, -8, 31>>, <<65, 2, 127>>,
     <<66, 5, -127>>, <<127, -4, 64>>, <<200, 6, -128>>, <<255, -8, 2>>, <<254, 1, -1>>}

Right(key, s) == [key |-> key, include |-> TRUE, accumulating |-> FALSE] @@ MCDevice[s]
Plain == <<Right("count", 1), Right("temp", 2), Right("volt", 3)>>
MCEdits ==
    {Plain,
     [Plain EXCEPT ![1].accumulating = TRUE],
     [Plain EXCEPT ![1].accumulating = TRUE, ![2].include = FALSE, ![3].scale = 0],
     [Plain EXCEPT ![1].accumulating = TRUE, ![2].accumulating = TRUE],
     [Plain EXCEPT ![1].key = NoKey, ![2].scale = 20, ![3].accumulating = TRUE],
     [Plain EXCEPT ![1].order = "ABCD", ![2].offset = 15, ![3].key = "count"],
     [s \in Slots |-> [Plain[s] EXCEPT !.type = Nothing, !.order = Nothing, !.accumulating = Nothing]]}
(* A register, a slot, all but one, all. *)
MCLosses == {{}, {3}, {0, 1}, 1..5, 0..5}

(* All six encodings, as the registry's own profiles use them. *)
Registered(slots) == [k \in DOMAIN slots |-> [key |-> <<"count", "temp", "volt">>[slots[k]], slot |-> slots[k]]
                                              @@ MCDevice[slots[k]]]
MCHandWritten ==
    {[meas |-> Registered(<<1, 2, 3>>), total |-> 7,
      fields |-> <<[key |-> "count", offset |-> 0, enc |-> "u32", scale |-> 1],
                   [key |-> "temp", offset |-> 4, enc |-> "i16", scale |-> 2],
                   [key |-> "volt", offset |-> 6, enc |-> "i8", scale |-> 1]>>],
     [meas |-> Registered(<<3, 2>>), total |-> 5,
      fields |-> <<[key |-> "volt", offset |-> 1, enc |-> "i32", scale |-> 2],
                   [key |-> "temp", offset |-> 0, enc |-> "u8", scale |-> 1]>>]}
=============================================================================
