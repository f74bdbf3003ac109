----------------------------- MODULE MCConversion -----------------------------
(* Small readouts of each kind, with a few packets lost, doubled or        *)
(* swapped on their way, or as many lost in one place as the counter of    *)
(* packets counts, and the files rolled over anywhere.                     *)
EXTENDS Conversion

CONSTANT MaxFaults   (* bound: packets lost, doubled or swapped, of up to ManyPackets *)

ManyPackets == 6     (* bound: of more packets only one is lost, doubled or swapped   *)

Faulty(s) ==
  {RemoveAt(s, i) : i \in DOMAIN s}
    \cup {InsertAt(s, i, s[i]) : i \in DOMAIN s}
    \cup {[s EXCEPT ![i] = s[i + 1], ![i + 1] = s[i]] : i \in 1 .. Len(s) - 1}

Delivered(s) ==
  LET after[n \in 0 .. MaxFaults] ==
        IF n = 0 THEN {s} ELSE after[n - 1] \cup UNION {Faulty(d) : d \in after[n - 1]}
  IN after[IF Len(s) > ManyPackets THEN 1 ELSE MaxFaults]

PeriodLost(s) ==
  {SubSeq(s, 1, i) \o SubSeq(s, i + PackMod + 1, Len(s)) : i \in 0 .. Len(s) - PackMod}

(* One file, or two: rolled over after any packet, the last one included. *)
RolledOver(s) ==
  {<<s>>} \cup {<<SubSeq(s, 1, i), SubSeq(s, i + 1, Len(s))>> : i \in 1 .. Len(s)}

MCRecordings(j) ==
  UNION {RolledOver(s) :
           s \in LET sent == Stream(j.nch, j.perPacket, j.nsamp)
                 IN Delivered(sent) \cup PeriodLost(sent)}

Job == [mode |-> "fits", nCols |-> 2, nRows |-> 2, nch |-> 4, nsamp |-> 4, perPacket |-> 4,
        nSamps |-> <<<<1, 2>>, <<1, 1>>>>, nColsAve |-> 2, bufferSize |-> 8,
        regMaxCol |-> 1, regMaxRow |-> 1, tool |-> FALSE]

(* Packets of two samples, so that two of them are a period of the word    *)
(* counter; more packets than are a period of theirs; and packets that end *)
(* inside samples.                                                         *)
Wrapping ==
  {[Job EXCEPT !.nsamp = 10, !.nCols = 3, !.perPacket = 8], [Job EXCEPT !.nsamp = 8],
   [Job EXCEPT !.nsamp = 10, !.nCols = 5, !.nRows = 1, !.perPacket = 10]}

MCJobs ==
  {[Job EXCEPT !.nsamp = n] : n \in {0, 3, 4, 5}}
    \cup {[Job EXCEPT !.nch = c, !.nsamp = 3, !.perPacket = c] : c \in {3, 5}}
    \cup Wrapping
    \cup {[Job EXCEPT !.mode = "smart", !.nsamp = n] : n \in {3, 5, 6}}
    \cup {[Job EXCEPT !.mode = "smart", !.nsamp = 5, !.perPacket = 6]}
    \cup {[Job EXCEPT !.mode = "smart", !.nch = 5, !.nsamp = 2, !.perPacket = 5]}
    \cup {[Job EXCEPT !.mode = "interleaving", !.nCols = c, !.nRows = 1, !.nsamp = 3 * c, !.perPacket = 4 * c]
            : c \in {1, 2, 3, 4}}
    \cup {[Job EXCEPT !.mode = "raw", !.nsamp = n] : n \in {1, 2}}
    \cup {[Job EXCEPT !.mode = "calibrate", !.nsamp = 12, !.perPacket = 16]}
=============================================================================
