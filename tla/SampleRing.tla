----------------------------- MODULE SampleRing -----------------------------
(***************************************************************************)
(* The replay buffer of the training loop (training/replay_buffer.h): a    *)
(* ring that overwrites its oldest sample, and the file it is saved to and *)
(* loaded from.  A sample is a positive number, NoSample an unused slot.   *)
(* A file is [size, samples], the samples oldest first.                    *)
(***************************************************************************)
EXTENDS Integers, Sequences, FiniteSets

NoSample == 0

NewRing(capacity) ==
    [slots |-> [i \in 0 .. capacity - 1 |-> NoSample], pos |-> 0, total |-> 0]

Capacity(r) == Cardinality(DOMAIN r.slots)

\* size(): also the number of slots the sampler draws from
Held(r) == IF r.total < Capacity(r) THEN r.total ELSE Capacity(r)

Add(r, s) ==
    [slots |-> [r.slots EXCEPT ![r.pos] = s],
     pos   |-> (r.pos + 1) % Capacity(r),
     total |-> IF r.total < Capacity(r) THEN r.total + 1 ELSE r.total]

\* add_batch(): the ring after the first i of the samples, for i all of them
AddBatch(r, samples) ==
    LET after[i \in 0 .. Len(samples)] ==
          IF i = 0 THEN r ELSE Add(after[i - 1], samples[i])
    IN  after[Len(samples)]

(* save() writes a ring that is not full from slot 0, a full one from the    *)
(* write position round to the slot before it.                               *)
SaveRing(r) ==
    LET first == IF Held(r) < Capacity(r) THEN 0 ELSE r.pos
    IN  [i \in 1 .. Held(r) |-> r.slots[(first + i - 1) % Capacity(r)]]

(* load() reads as many samples as the ring has room for, from the start of  *)
(* the file, into the slots from 0 on.                                       *)
LoadRing(file, capacity) ==
    LET count == IF Len(file) > capacity THEN capacity ELSE Len(file)
    IN  [slots |-> [i \in 0 .. capacity - 1 |->
                       IF i < count THEN file[i + 1] ELSE NoSample],
         pos   |-> count % capacity,
         total |-> count]
=============================================================================
