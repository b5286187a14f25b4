------------------------------- MODULE Swapping -------------------------------
(*****************************************************************************)
(* Memory and the swap area: process images and shared texts, NewProc,       *)
(* Process::Expand, the text part of Exec, Exit, ProcessManager::XSwap and   *)
(* Sched (process 0), Text::XccDec and XFree, BufferManager::Swap with its   *)
(* one buffer, and the allocator of ResourceMap under both.                  *)
(*                                                                           *)
(* A process in the kernel runs until it sleeps; cpu is the one that goes on *)
(* without having slept.  Sizes are in blocks of the swap area.  Which       *)
(* process Sched takes by p_time is left open, and the conditions under      *)
(* which it swaps processes out never hold (ProcessManager.cpp:255, 273,     *)
(* where == binds more tightly than &): a process is swapped out by itself,  *)
(* or when it is born.                                                       *)
(*****************************************************************************)
EXTENDS ResourceMap, FiniteSets

CONSTANTS NPROC,      \* size of process[]; entry 0 is the scheduler
          NPages,     \* pages of user memory
          NBlocks,    \* blocks of the swap area
          Page,       \* blocks of a page: PAGE_SIZE / BLOCK_SIZE
          Sizes,      \* sizes a process may ask for by sbreak
          Files,      \* program files, each with its entry of text[] when in use
          TextSize,   \* x_size
          ExecSize,   \* size of the image Exec makes
          NoFile,     \* no text
          NoProc      \* no process has the CPU

ASSUME SwappingAssumption ==
    /\ {NPROC, NPages, NBlocks, Page, TextSize} \subseteq Nat \ {0}
    /\ NPROC > 1
    /\ Sizes \subseteq Nat /\ \A s \in Sizes \cup {ExecSize} : s >= Page
    /\ ExecSize \in Nat /\ TextSize % Page = 0
    /\ NoFile \notin Files /\ NoProc \notin 0..NPROC

USIZE == Page  \* the page of the u area and the kernel stack
Slots == 1..(NPROC - 1)
Sched == 0

\* Channels
Awake   == "awake"
SwBuf   == "SwBuf"
RunIn   == "RunIn"
RunOut  == "RunOut"
Event   == "event"   \* of a sleep in another part of the kernel

VARIABLES mem,     \* the map of UserPageManager
          swap,    \* the map of SwapperManager
          proc,    \* process[]: p_stat, SLOAD, p_addr, p_size, p_textp
          text,    \* text[] by file: x_count, x_ccount, x_caddr, x_daddr
          swbuf,   \* SwBuf: B_BUSY, B_WANTED
          runIn,   \* RunIn # 0
          runOut,  \* RunOut # 0
          cpu,     \* the process that goes on without having slept, or NoProc
          pc,      \* where a process will go on
          chan,    \* p_wchan
          then,    \* where it goes on after Swap, or after Expand
          loc,     \* locals: oldSize and blkno of XSwap, pInode of Exec, parent of NewProc
          in,      \* pSelected and desAddress of Sched
          lost,    \* B_WANTED cleared under a process about to sleep (history)
          wild     \* memory is used that was not allocated (history)

areas  == <<mem, swap>>
flags  == <<swbuf, runIn, runOut>>
vars   == <<areas, proc, text, flags, cpu, pc, chan, then, loc, in, lost, wild>>

Put(f, i, v) == [f EXCEPT ![i] = v]
Pages(n)     == (n + Page - 1) \div Page
NoLoc        == [old |-> 0, blk |-> 0, file |-> NoFile, parent |-> 0]
NoIn         == [sel |-> 0, des |-> 0]
Free         == [stat |-> "SNULL", load |-> FALSE, addr |-> 0, size |-> 0, text |-> NoFile]
NoText       == [count |-> 0, ccount |-> 0, caddr |-> 0, daddr |-> 0]

\* Has i the CPU, or can it get it, at this place?  Memory is not followed beyond the
\* first time it is used without having been allocated.
At(i, label) ==
    /\ pc[i] = label /\ cpu \in {i, NoProc} /\ chan[i] = Awake
    /\ proc[i].stat = "SRUN" /\ proc[i].load
    /\ ~wild

GoOn(i, label)         == pc' = Put(pc, i, label) /\ cpu' = i
SleepAt(i, label)      == pc' = Put(pc, i, label) /\ cpu' = NoProc
Wake(channels)         == chan' = [i \in DOMAIN chan |-> IF chan[i] \in channels THEN Awake
                                                         ELSE chan[i]]
SwapThen(i, next)      == GoOn(i, "swap") /\ then' = Put(then, i, next)

\* The scheduler waits for work, and process 1 runs.
Init ==
    /\ LET first == OneArea(1, NPages)
       IN  /\ mem = AllocMap(first, Pages(USIZE))
           /\ proc = [i \in 0..(NPROC - 1) |->
                 CASE i = Sched -> [Free EXCEPT !.stat = "SRUN", !.load = TRUE]
                   [] i = 1 -> [Free EXCEPT !.stat = "SRUN", !.load = TRUE, !.size = USIZE,
                                            !.addr = AllocAddr(first, Pages(USIZE))]
                   [] OTHER -> Free]
    /\ swap = OneArea(1, NBlocks)
    /\ text = [f \in Files |-> NoText]
    /\ swbuf = [busy |-> FALSE, wanted |-> FALSE] /\ runIn = FALSE /\ runOut = FALSE
    /\ cpu = NoProc
    /\ pc = [i \in 0..(NPROC - 1) |->
               CASE i = Sched -> "loop" [] i = 1 -> "user" [] OTHER -> "none"]
    /\ chan = [i \in 0..(NPROC - 1) |-> Awake]
    /\ then = [i \in 0..(NPROC - 1) |-> "user"]
    /\ loc = [i \in 0..(NPROC - 1) |-> NoLoc] /\ in = NoIn
    /\ lost = FALSE /\ wild = FALSE

-----------------------------------------------------------------------------
(* BufferManager::Swap *)

\* The buffer is free: the transfer starts, and its end is waited for.
SwapStart(i) ==
    /\ At(i, "swap") /\ ~swbuf.busy
    /\ swbuf' = [busy |-> TRUE, wanted |-> FALSE]
    /\ SleepAt(i, "io")
    /\ chan' = Put(chan, i, SwBuf)
    /\ UNCHANGED <<areas, proc, text, runIn, runOut, then, loc, in, lost, wild>>

\* It is busy.  The first time the interrupts are off; after a Sleep they are on.
SwapWait(i) ==
    /\ At(i, "swap") /\ swbuf.busy
    /\ swbuf' = [swbuf EXCEPT !.wanted = TRUE]
    /\ SleepAt(i, "wait")
    /\ chan' = Put(chan, i, SwBuf)
    /\ UNCHANGED <<areas, proc, text, runIn, runOut, then, loc, in, lost, wild>>

SwapAgain(i) ==
    /\ At(i, "wait")
    /\ \/ /\ ~swbuf.busy /\ swbuf' = [busy |-> TRUE, wanted |-> FALSE]
          /\ SleepAt(i, "io") /\ chan' = Put(chan, i, SwBuf)
       \/ /\ swbuf.busy /\ swbuf' = [swbuf EXCEPT !.wanted = TRUE]
          /\ GoOn(i, "nod") /\ UNCHANGED chan
    /\ UNCHANGED <<areas, proc, text, runIn, runOut, then, loc, in, lost, wild>>

SwapSleep(i) ==
    /\ At(i, "nod")
    /\ SleepAt(i, "wait") /\ chan' = Put(chan, i, SwBuf)
    /\ UNCHANGED <<areas, proc, text, flags, then, loc, in, lost, wild>>

\* IODone, at the interrupt that ends the transfer.
IODone == \E i \in DOMAIN pc :
    /\ pc[i] = "io" /\ chan[i] = SwBuf /\ ~wild
    /\ swbuf' = [swbuf EXCEPT !.wanted = FALSE]
    /\ Wake({SwBuf})
    /\ lost' = (lost \/ \E j \in DOMAIN pc : pc[j] = "nod")
    /\ UNCHANGED <<areas, proc, text, runIn, runOut, cpu, pc, then, loc, in, wild>>

\* The transfer of i is over: Swap wakes those who wait and returns.
SwapEnds(i, next) == At(i, "io") /\ then[i] = next /\ swbuf' = [busy |-> FALSE, wanted |-> FALSE]
SwapWoken         == IF swbuf.wanted THEN {SwBuf} ELSE {}

-----------------------------------------------------------------------------
(* Texts *)

\* The texts and the map of memory after XccDec of the text f.
XccDec(f, t, m) ==
    IF f = NoFile \/ t[f].ccount = 0 THEN [t |-> t, m |-> m]
    ELSE [t |-> [t EXCEPT ![f].ccount = t[f].ccount - 1],
          m |-> IF t[f].ccount > 1 THEN m ELSE FreeMap(m, Pages(TextSize), t[f].caddr)]

\* The texts and both maps after XFree; IPut keeps the file's inode from being seen
\* meanwhile.
XFree(f, t, m, s) ==
    LET dec == XccDec(f, t, m)
    IN  IF f = NoFile THEN [t |-> t, m |-> m, s |-> s]
        ELSE IF dec.t[f].count > 1
        THEN [t |-> [dec.t EXCEPT ![f].count = dec.t[f].count - 1], m |-> dec.m, s |-> s]
        ELSE [t |-> [dec.t EXCEPT ![f] = NoText], m |-> dec.m,
              s |-> FreeMap(s, TextSize, t[f].daddr)]

-----------------------------------------------------------------------------
(* XSwap *)

\* XSwap of process i begins: blkno is allocated for its p_size, and its text has one
\* process less in memory.
XSwap(i, size, old, t, m, s) ==
    /\ AllocAddr(s, size) # 0
    /\ loc' = [loc EXCEPT ![i].old = old, ![i].blk = AllocAddr(s, size)]
    /\ swap' = AllocMap(s, size)
    /\ LET dec == XccDec(proc[i].text, t, m)
       IN  text' = dec.t /\ mem' = dec.m

\* Mutant: Sched would not be told.
TellNobody == runOut' = runOut /\ Wake(SwapWoken)

\* XSwap ends: Sched is told.
Tell == runOut' = FALSE /\ Wake(SwapWoken \cup (IF runOut THEN {RunOut} ELSE {}))

Panic(i) ==
    /\ GoOn(i, "panic")
    /\ UNCHANGED <<areas, proc, text, flags, chan, then, loc, in, lost, wild>>

-----------------------------------------------------------------------------
(* Fork *)

FreeSlots == {i \in Slots : proc[i].stat = "SNULL"}

\* Mutant: Clone would not count the child among the processes in memory.
ClonedTextUncounted(f) ==
    IF f = NoFile THEN text ELSE [text EXCEPT ![f].count = text[f].count + 1]

\* Clone: the child refers to the text of its parent.
ClonedText(f) ==
    IF f = NoFile THEN text
    ELSE [text EXCEPT ![f].count = text[f].count + 1, ![f].ccount = text[f].ccount + 1]

Child(i, addr) == [proc[i] EXCEPT !.addr = addr]

\* NewProc finds memory for the child.
Fork(i) == \E c \in FreeSlots :
    /\ At(i, "user") /\ \A j \in FreeSlots : c <= j
    /\ LET addr == AllocAddr(mem, Pages(proc[i].size))
       IN  addr # 0 /\ proc' = Put(proc, c, Child(i, addr))
    /\ mem' = AllocMap(mem, Pages(proc[i].size))
    /\ text' = ClonedText(proc[i].text)
    /\ pc' = Put(pc, c, "user")
    /\ UNCHANGED <<swap, flags, cpu, chan, then, loc, in, lost, wild>>

\* There is none: under the child's entry of the table the image of its parent, which
\* is idle meanwhile, is written to the swap area.
ForkSwap(i) == \E c \in FreeSlots :
    /\ At(i, "user") /\ \A j \in FreeSlots : c <= j
    /\ AllocAddr(mem, Pages(proc[i].size)) = 0
    /\ AllocAddr(swap, proc[i].size) # 0
    /\ proc' = [proc EXCEPT ![c] = Child(i, proc[i].addr), ![i].stat = "SIDL"]
    /\ loc' = [loc EXCEPT ![c].old = proc[i].size,
                          ![c].blk = AllocAddr(swap, proc[i].size), ![c].parent = i]
    /\ swap' = AllocMap(swap, proc[i].size)
    /\ LET dec == XccDec(proc[i].text, ClonedText(proc[i].text), mem)
       IN  text' = dec.t /\ mem' = dec.m
    /\ SwapThen(c, "forked")
    /\ UNCHANGED <<flags, chan, in, lost, wild>>

\* The child is in the swap area; its parent goes on.
Forked(c) ==
    /\ SwapEnds(c, "forked")
    /\ LET i == loc[c].parent
       IN  /\ proc' = [proc EXCEPT ![c].addr = loc[c].blk, ![c].load = FALSE,
                                   ![i].stat = "SRUN"]
           /\ pc' = [pc EXCEPT ![c] = "user", ![i] = "user"]
    /\ Tell /\ cpu' = NoProc
    /\ then' = Put(then, c, "user") /\ loc' = Put(loc, c, NoLoc)
    /\ UNCHANGED <<areas, text, runIn, in, lost, wild>>

-----------------------------------------------------------------------------
(* Expand *)

\* The map after Expand to a size not larger, and the pages it should give back.
Shrunk(m, addr, old, new) == FreeMap(m, Pages(old - new), addr + new \div Page)
ShrinksWell(old, new)     == Pages(old - new) = Pages(old) - Pages(new) /\
                             (old > new => new % Page = 0)

\* sbreak to a smaller size.  If old and new do not end at a page the area given back
\* may be one of those in use.
Shrink(i) == \E n \in Sizes :
    /\ At(i, "user") /\ n < proc[i].size
    /\ proc' = [proc EXCEPT ![i].size = n]
    /\ mem' = Shrunk(mem, proc[i].addr, proc[i].size, n)
    /\ wild' = ~ShrinksWell(proc[i].size, n)
    /\ UNCHANGED <<swap, text, flags, cpu, pc, chan, then, loc, in, lost>>

\* sbreak to a larger one.
Grow(i) == \E n \in Sizes :
    /\ At(i, "user") /\ n > proc[i].size
    /\ loc' = [loc EXCEPT ![i].old = proc[i].size]
    /\ proc' = [proc EXCEPT ![i].size = n]
    /\ then' = Put(then, i, "user")
    /\ GoOn(i, "expand")
    /\ UNCHANGED <<areas, text, flags, chan, in, lost, wild>>

\* Expand finds memory, copies the image and gives back the old area.
Expand(i) ==
    /\ At(i, "expand") /\ AllocAddr(mem, Pages(proc[i].size)) # 0
    /\ proc' = [proc EXCEPT ![i].addr = AllocAddr(mem, Pages(proc[i].size))]
    /\ mem' = FreeMap(AllocMap(mem, Pages(proc[i].size)), Pages(loc[i].old), proc[i].addr)
    /\ loc' = [loc EXCEPT ![i].old = 0]
    /\ IF then[i] = "user" THEN SleepAt(i, "user") ELSE GoOn(i, then[i])
    /\ UNCHANGED <<swap, text, flags, chan, then, in, lost, wild>>

\* It finds none: the process is swapped out.
ExpandSwap(i) ==
    /\ At(i, "expand") /\ AllocAddr(mem, Pages(proc[i].size)) = 0
    /\ XSwap(i, proc[i].size, loc[i].old, text, mem, swap)
    /\ SwapThen(i, IF then[i] = "user" THEN "expanded" ELSE "expanded by exec")
    /\ UNCHANGED <<proc, flags, chan, in, lost, wild>>

Expanded(i) ==
    /\ SwapEnds(i, "expanded") \/ SwapEnds(i, "expanded by exec")
    /\ mem' = FreeMap(mem, Pages(loc[i].old), proc[i].addr)
    /\ proc' = [proc EXCEPT ![i].addr = loc[i].blk, ![i].load = FALSE]
    /\ Tell
    /\ SleepAt(i, IF then[i] = "expanded" THEN "user" ELSE "text")
    /\ then' = Put(then, i, "user") /\ loc' = [loc EXCEPT ![i].old = 0, ![i].blk = 0]
    /\ UNCHANGED <<swap, text, runIn, in, lost, wild>>

\* XSwap finds no room in the swap area.
OutOfSwap(i) ==
    /\ \/ At(i, "user") /\ FreeSlots # {} /\ AllocAddr(mem, Pages(proc[i].size)) = 0
       \/ At(i, "expand") /\ AllocAddr(mem, Pages(proc[i].size)) = 0
    /\ AllocAddr(swap, proc[i].size) = 0
    /\ Panic(i)

-----------------------------------------------------------------------------
(* Exec and Exit *)

\* The program file is found, and its inode locked until Exec ends.
Exec(i) == \E f \in Files :
    /\ At(i, "user") /\ \A j \in Slots : loc[j].file # f
    /\ loc' = [loc EXCEPT ![i].file = f]
    /\ SleepAt(i, "exec")
    /\ UNCHANGED <<areas, proc, text, flags, chan, then, in, lost, wild>>

\* Its bytes have been read.  The old image is given up but for the u area; a text of
\* the same file is shared, whether it is in memory or not, or else made, whether there
\* is room for it or not; and the image is to grow.
ExecText(i) ==
    /\ At(i, "exec")
    /\ LET f     == loc[i].file
           freed == XFree(proc[i].text, text, mem, swap)
           small == Shrunk(freed.m, proc[i].addr, proc[i].size, USIZE)
           old   == freed.t[f]
           caddr == AllocAddr(small, Pages(TextSize))
           daddr == AllocAddr(freed.s, TextSize)
       IN  IF old.count > 0
           THEN /\ text' = [freed.t EXCEPT ![f].count = old.count + 1,
                                           ![f].ccount = old.ccount + 1]
                /\ mem' = small /\ swap' = freed.s
                /\ wild' = (old.ccount = 0)
           ELSE /\ text' = [freed.t EXCEPT ![f] =
                      [count |-> 1, ccount |-> 1, caddr |-> caddr, daddr |-> daddr]]
                /\ mem' = AllocMap(small, Pages(TextSize))
                /\ swap' = AllocMap(freed.s, TextSize)
                /\ wild' = (caddr = 0 \/ daddr = 0)
    /\ proc' = [proc EXCEPT ![i].text = loc[i].file, ![i].size = ExecSize]
    /\ loc' = [loc EXCEPT ![i].old = USIZE]
    /\ then' = Put(then, i, "text")
    /\ GoOn(i, "expand")
    /\ UNCHANGED <<flags, chan, in, lost>>

\* The text is in memory; a copy goes to the swap area.
ExecCopy(i) ==
    /\ At(i, "text")
    /\ SwapThen(i, "copied")
    /\ UNCHANGED <<areas, proc, text, flags, chan, loc, in, lost, wild>>

Execed(i) ==
    /\ SwapEnds(i, "copied")
    /\ Wake(SwapWoken)
    /\ SleepAt(i, "user")
    /\ then' = Put(then, i, "user") /\ loc' = Put(loc, i, NoLoc)
    /\ UNCHANGED <<areas, proc, text, runIn, runOut, in, lost, wild>>

\* Exit and Wait, without the block of the u area (Processes).
Exit(i) ==
    /\ At(i, "user")
    /\ LET freed == XFree(proc[i].text, text, mem, swap)
       IN  /\ text' = freed.t /\ swap' = freed.s
           /\ mem' = FreeMap(freed.m, Pages(proc[i].size), proc[i].addr)
    /\ proc' = Put(proc, i, Free)
    /\ SleepAt(i, "none")
    /\ UNCHANGED <<flags, chan, then, loc, in, lost, wild>>

\* A process sleeps, and is woken, elsewhere in the kernel (Sleep with pri > 0).
Pause(i) ==
    /\ At(i, "user")
    /\ runIn' = FALSE
    /\ chan' = [j \in DOMAIN chan |-> IF j = i THEN Event
                                      ELSE IF runIn /\ chan[j] = RunIn THEN Awake ELSE chan[j]]
    /\ UNCHANGED <<areas, proc, text, swbuf, runOut, cpu, pc, then, loc, in, lost, wild>>

SetRun == \E i \in Slots :
    /\ chan[i] = Event /\ cpu = NoProc /\ ~wild
    /\ chan' = Put(chan, i, Awake)
    /\ UNCHANGED <<areas, proc, text, flags, cpu, pc, then, loc, in, lost, wild>>

-----------------------------------------------------------------------------
(* Sched *)

\* Who is ready in the swap area.
Ready == {i \in Slots : proc[i].stat = "SRUN" /\ chan[i] = Awake /\ ~proc[i].load}

TextOut(i)   == proc[i].text # NoFile /\ text[proc[i].text].ccount = 0
SizeToGet(i) == Pages(proc[i].size + IF TextOut(i) THEN TextSize ELSE 0)

SchedNobody ==
    /\ At(Sched, "loop") /\ Ready = {}
    /\ runOut' = TRUE
    /\ SleepAt(Sched, "loop") /\ chan' = Put(chan, Sched, RunOut)
    /\ UNCHANGED <<areas, proc, text, swbuf, runIn, then, loc, in, lost, wild>>

\* There is no memory for it: wait until another process sleeps or a second ends.
SchedFull == \E i \in Ready :
    /\ At(Sched, "loop") /\ AllocAddr(mem, SizeToGet(i)) = 0
    /\ runIn' = TRUE
    /\ SleepAt(Sched, "loop") /\ chan' = Put(chan, Sched, RunIn)
    /\ UNCHANGED <<areas, proc, text, swbuf, runOut, then, loc, in, lost, wild>>

\* There is: the text is brought in first if it is not in memory.
SchedFound == \E i \in Ready :
    /\ At(Sched, "loop") /\ AllocAddr(mem, SizeToGet(i)) # 0
    /\ in' = [sel |-> i, des |-> AllocAddr(mem, SizeToGet(i))]
    /\ mem' = AllocMap(mem, SizeToGet(i))
    /\ IF TextOut(i)
       THEN SwapThen(Sched, "text in") /\ UNCHANGED text
       ELSE /\ SwapThen(Sched, "image in")
            /\ text' = IF proc[i].text = NoFile THEN text
                       ELSE [text EXCEPT ![proc[i].text].ccount = text[proc[i].text].ccount + 1]
    /\ UNCHANGED <<swap, proc, flags, chan, loc, lost, wild>>

SchedTextIn ==
    /\ SwapEnds(Sched, "text in") /\ Wake(SwapWoken)
    /\ LET f == proc[in.sel].text
       IN  text' = [text EXCEPT ![f].caddr = in.des, ![f].ccount = text[f].ccount + 1]
    /\ in' = [in EXCEPT !.des = in.des + Pages(TextSize)]
    /\ SwapThen(Sched, "image in")
    /\ UNCHANGED <<areas, proc, runIn, runOut, loc, lost, wild>>

SchedImageIn ==
    /\ SwapEnds(Sched, "image in") /\ Wake(SwapWoken)
    /\ swap' = FreeMap(swap, proc[in.sel].size, proc[in.sel].addr)
    /\ proc' = [proc EXCEPT ![in.sel].addr = in.des, ![in.sel].load = TRUE]
    /\ in' = NoIn
    /\ GoOn(Sched, "loop") /\ then' = Put(then, Sched, "user")
    /\ UNCHANGED <<mem, text, runIn, runOut, loc, lost, wild>>

\* Clock, at the end of a second that interrupts a process in user mode.
Clock == \E i \in Slots :
    /\ At(i, "user") /\ cpu = NoProc /\ runIn
    /\ runIn' = FALSE
    /\ Wake({RunIn})
    /\ UNCHANGED <<areas, proc, text, swbuf, runOut, cpu, pc, then, loc, in, lost, wild>>

-----------------------------------------------------------------------------
(* Specification *)

Transfer(i) == SwapStart(i) \/ SwapWait(i) \/ SwapAgain(i) \/ SwapSleep(i)

Call(i) == \/ Fork(i) \/ ForkSwap(i) \/ Shrink(i) \/ Grow(i) \/ Exec(i) \/ Exit(i) \/ Pause(i)

Inside(i) == \/ Forked(i) \/ Expand(i) \/ ExpandSwap(i) \/ Expanded(i) \/ OutOfSwap(i)
             \/ ExecText(i) \/ ExecCopy(i) \/ Execed(i)

SchedStep == SchedNobody \/ SchedFull \/ SchedFound \/ SchedTextIn \/ SchedImageIn

Next == \/ \E i \in Slots : Call(i) \/ Inside(i)
        \/ \E i \in DOMAIN pc : Transfer(i)
        \/ SchedStep \/ IODone \/ Clock \/ SetRun

Spec == Init /\ [][Next]_vars

-----------------------------------------------------------------------------
(* Properties *)

Image(i) == proc[i].stat # "SNULL"

\* The regions have no unit in common, and are what the map of n units has given out.
Exact(map, regions, n) ==
    /\ UNION {Area(r.addr, r.size) : r \in regions} = (1..n) \ Cells(map)
    /\ \A r, s \in regions : r # s => Area(r.addr, r.size) \cap Area(s.addr, s.size) = {}

\* Memory a process has: none if it is out or being born there, the old area in Expand.
HeldPages(i) == CASE ~proc[i].load \/ then[i] = "forked" -> 0
                  [] proc[i].load /\ then[i] # "forked" /\ loc[i].old > 0 -> Pages(loc[i].old)
                  [] OTHER -> Pages(proc[i].size)

MemRegions ==
    {[of |-> <<"image", i>>, addr |-> proc[i].addr, size |-> HeldPages(i)] :
        i \in {j \in Slots : Image(j) /\ HeldPages(j) > 0}}
    \cup {[of |-> <<"text", f>>, addr |-> text[f].caddr, size |-> Pages(TextSize)] :
        f \in {g \in Files : text[g].ccount > 0}}
    \cup (IF in.sel = 0 THEN {} ELSE
          {[of |-> <<"in", in.sel>>, addr |-> in.des,
            size |-> IF then[Sched] = "text in" THEN SizeToGet(in.sel)
                     ELSE Pages(proc[in.sel].size)]})

\* Every page is free, or belongs to one image or one text in memory (Expand, XSwap,
\* NewProc, Exec, XccDec and Sched).
MemoryExact == Exact(mem, MemRegions, NPages)

SwapRegions ==
    {[of |-> <<"image", i>>, addr |-> proc[i].addr, size |-> proc[i].size] :
        i \in {j \in Slots : Image(j) /\ ~proc[j].load}}
    \cup {[of |-> <<"out", i>>, addr |-> loc[i].blk, size |-> proc[i].size] :
        i \in {j \in Slots : loc[j].blk # 0}}
    \cup {[of |-> <<"text", f>>, addr |-> text[f].daddr, size |-> TextSize] :
        f \in {g \in Files : text[g].count > 0}}

\* Every block of the swap area is free, or belongs to one image that is out or on its
\* way, or to one text (XSwap, Sched, Exec and XFree).
SwapExact == Exact(swap, SwapRegions, NBlocks)

\* Both maps are areas in order, joined where they touch (Allocator.cpp:41-103), and
\* have given out just what is in use, each unit to one user only.
AreasExact ==
    /\ WellFormed(mem) /\ WellFormed(swap)
    /\ wild \/ (MemoryExact /\ SwapExact)

InMemory(i) == \/ proc[i].load /\ loc[i].blk = 0
               \/ in.sel = i /\ then[Sched] = "image in"

\* x_count is the number of processes of a text, x_ccount that of those in memory
\* (Clone, Exec, XccDec, XFree and Sched).
TextCounts == ~wild => \A f \in Files :
    LET users == {i \in Slots : Image(i) /\ proc[i].text = f}
    IN  /\ text[f].count = Cardinality(users)
        /\ text[f].ccount = Cardinality({i \in users : InMemory(i)})

\* Sched does not sleep on RunOut while a process is ready in the swap area, nor on
\* RunIn without the flag; who waits for SwBuf finds it busy, and its user knows of it or
\* its transfer is to come, unless that ended under who was about to sleep
\* (ProcessManager.cpp:204-226, 788, Process.cpp:33, BufferManager.cpp:407-435).
SleepersHaveReason == ~wild =>
    /\ chan[Sched] = RunOut => runOut /\ Ready = {}
    /\ chan[Sched] = RunIn => runIn
    /\ \A i \in DOMAIN pc : pc[i] = "wait" /\ chan[i] = SwBuf =>
          /\ swbuf.busy \/ lost
          /\ \/ swbuf.wanted \/ lost
             \/ \E j \in DOMAIN pc : pc[j] = "io" /\ chan[j] = SwBuf

\* Where there is no memory for a process, one that sleeps at low priority in memory is
\* swapped out (the comment at ProcessManager.cpp:247-250).
MakesRoom == [][chan[Sched] = Awake /\ chan'[Sched] = RunIn =>
                  \A i \in Slots : chan[i] # Event]_vars

=============================================================================
