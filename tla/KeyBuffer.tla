----------------------------- MODULE KeyBuffer -----------------------------
(***************************************************************************)
(* The firmware's key ring buffer (struct KeyBuffer of                     *)
(* src/src/core/input/keyboard_state_ringbuffer.zig) as operators on a     *)
(* record [data, read, write].  read is the slot of the oldest key, write  *)
(* an empty slot; one slot always stays empty.  A slot holds a key event:  *)
(* the key code, and the event's number in the order of the keyboard,      *)
(* which the code does not see.                                            *)
(*                                                                         *)
(* A definition marked "Slip" is a wrong variant of the one behind it, by  *)
(* which the properties are tested; no specification uses it.              *)
(***************************************************************************)
EXTENDS Integers, Sequences

CONSTANTS
  BufferSize,      (* BUFFER_SIZE, a power of two: & BUFFER_MASK is %      *)
  built_for_r47    (* the build that remaps the key codes                  *)

ASSUME KeyBufferAssumption ==
  /\ BufferSize \in Nat \ {0, 1}
  /\ built_for_r47 \in BOOLEAN

(* key_pop's code for a key that went up, EXIT, R/S and the screen dump.   *)
Released == 0
EXIT == 33
RS == 36
DISP == 44
Interrupts == {EXIT, RS}

(* The buffer as the program starts with it: every slot holds a zero.      *)
EmptyBuffer ==
  [data  |-> [i \in 0 .. BufferSize - 1 |-> [key |-> Released, nr |-> 0]],
   read  |-> 0,
   write |-> 0]

full(b) == b.read = (b.write + 1) % BufferSize
empty(b) == b.read = b.write

(* clear: the keys are forgotten, the slots keep what they held.           *)
clear(b) == [b EXCEPT !.read = b.write]

(* pop: the oldest key, and the buffer without it.                         *)
oldest(b) == b.data[b.read]

(* Slip: the key is fetched and stays the oldest one.                      *)
popWithoutAdvance(b) == b

pop(b) == [b EXCEPT !.read = (@ + 1) % BufferSize]

(* The keys in the buffer, oldest first.                                   *)
Contents(b) ==
  [i \in 1 .. (b.write - b.read) % BufferSize |->
     b.data[(b.read + i - 1) % BufferSize]]

hasInterruptKey(b) == \E i \in DOMAIN Contents(b) : Contents(b)[i].key \in Interrupts

(***************************************************************************)
(* remapKey for the R47 keyboard; every other code, EXIT, R/S and the      *)
(* release among them, passes through.                                     *)
(***************************************************************************)
R47Layout ==
  [k \in {11, 15, 16, 18, 23, 28} |->
     CASE k = 11 -> 18 [] k = 15 -> 16 [] k = 16 -> 15
       [] k = 18 -> 23 [] k = 23 -> 28 [] k = 28 -> 11]

remapKey(e) ==
  IF built_for_r47 /\ e.key \in DOMAIN R47Layout
    THEN [e EXCEPT !.key = R47Layout[e.key]]
    ELSE e

---------------------------------------------------------------------------
LastWritten(b) == b.data[(b.write - 1) % BufferSize]

(* Slip: write runs past the last slot.                                    *)
pushUnmasked(b, e) ==
  IF full(b) \/ LastWritten(b).key = e.key
    THEN b
    ELSE [b EXCEPT !.data[b.write] = e, !.write = @ + 1]

(***************************************************************************)
(* push refuses a key when the buffer is full, and when the slot behind    *)
(* write holds the same code, whether or not that key is still in the      *)
(* buffer.                                                                 *)
(***************************************************************************)
push(b, e) ==
  IF full(b) \/ LastWritten(b).key = e.key
    THEN b
    ELSE [b EXCEPT !.data[b.write] = e, !.write = (@ + 1) % BufferSize]

(* Slip: keys are taken from the system's buffer even when there is no     *)
(* slot for them.                                                          *)
drainOneIntoFull(raw, s) ==
  IF s.taken = Len(raw)
    THEN s
    ELSE [buf |-> push(s.buf, remapKey(raw[s.taken + 1])), taken |-> s.taken + 1]

(* One turn of drainKeys' loop, with `taken` keys taken before; once the   *)
(* buffer is full or no key is left the turns change nothing.              *)
drainOne(raw, s) ==
  IF full(s.buf) \/ s.taken = Len(raw)
    THEN s
    ELSE [buf |-> push(s.buf, remapKey(raw[s.taken + 1])), taken |-> s.taken + 1]

(* The states of the loop, turn by turn; there is one in each set, from    *)
(* which actions pick with \E.                                             *)
turns(b, raw) ==
  LET turn[i \in 0 .. Len(raw)] ==
        IF i = 0 THEN {[buf |-> b, taken |-> 0]}
                 ELSE {drainOne(raw, s) : s \in turn[i - 1]}
  IN turn

(***************************************************************************)
(* drainKeys: keys move from the system's buffer until that is empty or    *)
(* this one is full, which stops the loop before the next key is taken.    *)
(***************************************************************************)
drainKeys(b, raw) ==
  {[buf |-> s.buf, left |-> SubSeq(raw, s.taken + 1, Len(raw))] :
     s \in turns(b, raw)[Len(raw)]}
=============================================================================
