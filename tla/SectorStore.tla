---------------------------- MODULE SectorStore ----------------------------
(***************************************************************************)
(* What the disk part of a CP/M BIOS promises to the BDOS: a store of       *)
(* sectors.  The caller selects a drive, a track, a sector and a buffer,    *)
(* then reads or writes.  A call that answers "ok" has moved the sector;    *)
(* one that answers "bad" has changed neither the buffer nor, if it says so *)
(* in time, the disk.                                                       *)
(***************************************************************************)
CONSTANTS Address, Buffer, Value

VARIABLES
  store, \* the contents of every sector
  mem,   \* the contents of every buffer
  addr,  \* the selected drive, track and sector
  dma,   \* the selected buffer
  call,  \* the call in progress: "none", "read", "write", "written"
  res    \* the answer to the last call

vars == <<store, mem, addr, dma, call, res>>

Init ==
  /\ store \in [Address -> Value] /\ mem \in [Buffer -> Value]
  /\ addr \in Address /\ dma \in Buffer
  /\ call = "none" /\ res = "ok"

Choose(a, b) ==
  /\ call = "none" /\ addr' = a /\ dma' = b
  /\ UNCHANGED <<store, mem, call, res>>

Fill(b, v) ==
  /\ call = "none" /\ mem' = [mem EXCEPT ![b] = v]
  /\ UNCHANGED <<store, addr, dma, call, res>>

Begin(op) ==
  /\ call = "none" /\ call' = op
  /\ UNCHANGED <<store, mem, addr, dma, res>>

ReadEnds ==
  /\ call = "read" /\ call' = "none"
  /\ \/ res' = "ok" /\ mem' = [mem EXCEPT ![dma] = store[addr]]
     \/ res' = "bad" /\ UNCHANGED mem
  /\ UNCHANGED <<store, addr, dma>>

\* The disk changes once, before the answer, or not at all.
Commit ==
  /\ call = "write" /\ call' = "written"
  /\ store' = [store EXCEPT ![addr] = mem[dma]]
  /\ UNCHANGED <<mem, addr, dma, res>>

WriteEnds ==
  /\ call \in {"write", "written"} /\ call' = "none"
  /\ res' = IF call = "written" THEN "ok" ELSE "bad"
  /\ UNCHANGED <<store, mem, addr, dma>>

Next ==
  \/ \E a \in Address, b \in Buffer : Choose(a, b)
  \/ \E b \in Buffer, v \in Value : Fill(b, v)
  \/ Begin("read") \/ Begin("write")
  \/ ReadEnds \/ Commit \/ WriteEnds

Spec == Init /\ [][Next]_vars
=============================================================================
