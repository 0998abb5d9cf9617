------------------------------- MODULE Machine -------------------------------
(***************************************************************************)
(* The virtual machine of aeon-vm: its instructions, copy-on-write heap    *)
(* and virtual files, full and incremental snapshots, edits of a snapshot  *)
(* by patch sets, and the compiled form of a hot program.                  *)
(*                                                                         *)
(* One program is run, saved, restored, edited and compiled in any order   *)
(* the command lines and the library allow.                                *)
(***************************************************************************)
EXTENDS Integers, SequencesExt

CONSTANTS
  Programs,     \* the programs that may be run
  Reg,          \* register numbers; 0..3 are those of the system calls
  Word,         \* 2^64: the number of values of a register or an address
  ByteSize,     \* the number of values of a byte
  NonText,      \* bytes that never occur in UTF-8 text
  HeapLen,      \* bytes of the heap
  PageSize,
  HotThreshold, \* runs of a program before it is compiled
  Edits,        \* the changes users make: see Edit
  MaxSteps,     \* bound: instructions executed by a machine or a compiled function
  MaxSaves,     \* bound: snapshots written
  MaxPatches    \* bound: patches of a patch set

\* An instruction names registers, a value, an offset or an address.
Instruction ==
  [op : {"LoadImm"}, dst : Reg, val : 0..(Word - 1)]
  \cup [op : {"Mov"}, dst : Reg, src : Reg]
  \cup [op : {"Add", "Sub", "Mul"}, dst : Reg, a : Reg, b : Reg]
  \cup [op : {"Jz"}, cond : Reg, off : Int]
  \cup [op : {"Jump"}, off : Int]
  \cup [op : {"Call"}, addr : 0..(Word - 1)]
  \cup [op : {"Ret", "Halt"}]
  \cup [op : {"Print"}, r : Reg]
  \cup [op : {"LoadMem"}, dst : Reg, addr : Reg]
  \cup [op : {"StoreMem"}, addr : Reg, src : Reg]
  \cup [op : {"Alloc"}, dst : Reg, size : Reg]
  \cup [op : {"Syscall"}, num : Nat]

\* What a user may change, and the new value.
EditForm ==
  [kind : {"Reg", "Pc", "CallStackEntry", "HeapTop"}, index : Nat, new : 0..(Word - 1)]
  \cup [kind : {"HeapRange"}, index : Nat, new : Seq(0..(ByteSize - 1))]

ASSUME MachineAssumption ==
  /\ 0..3 \subseteq Reg /\ {Word, HeapLen, PageSize, ByteSize} \subseteq Nat \ {0}
  /\ HeapLen < Word /\ ByteSize <= Word
  /\ Programs # {} /\ Programs \subseteq Seq(Instruction) /\ \A p \in Programs : Len(p) < Word
  /\ Edits \subseteq EditForm
  /\ {HotThreshold, MaxSteps, MaxSaves, MaxPatches} \subseteq Nat /\ MaxSteps < Word

VARIABLES
  program,  \* the program
  vm,       \* the machine: what a snapshot keeps of it
  dirty,    \* heap pages written since the heap was made
  snap,     \* the snapshot written or received last
  edit,     \* the editor of a snapshot
  hot,      \* how often run_hot was asked for the program
  cached,   \* is it compiled?
  jit,      \* the compiled function in progress; ran: history, its instructions so far
  saves,
  origin    \* history: where the runs of vm and snap began without an interruption

machineVars == <<program, vm, dirty, snap, edit, hot, cached, jit, saves, origin>>

Byte == 0..(ByteSize - 1)
Addr == 0..(HeapLen - 1)
Page(a) == a \div PageSize

-----------------------------------------------------------------------------
(* Heap and files.                                                          *)

\* A machine is its processor (registers, pc, call stack, step count, heap top and
\* open files) and its heap.  What one instruction leaves: result, machine, pages
\* written.
Stopped(m, result) == [result |-> result, vm |-> m, pages |-> {}]
RanWith(cpu, heap, pages) ==
  [result |-> "ok", vm |-> [cpu |-> [cpu EXCEPT !.steps = @ + 1], heap |-> heap], pages |-> pages]
Ran(m, cpu) == RanWith(cpu, m.heap, {})
Goto(m, pc) == Ran(m, [m.cpu EXCEPT !.pc = pc])
SetReg(cpu, r, v) == [cpu EXCEPT !.regs[r] = v, !.pc = @ + 1]

InHeap(addr, len) == addr + len <= HeapLen
ReadHeap(heap, addr, len) == [n \in 1..len |-> heap[addr + n - 1]]
WriteHeap(heap, addr, bytes) ==
  [a \in Addr |-> IF a \in addr..(addr + Len(bytes) - 1) THEN bytes[a - addr + 1] ELSE heap[a]]
BugFirstPage(addr, len) == {Page(addr)}
PagesOf(addr, len) == {Page(a) : a \in addr..(addr + len - 1)}

Closed == [open |-> FALSE, path |-> <<>>, cursor |-> 0, writable |-> FALSE]
IsOpen(cpu, fd) == fd < Len(cpu.fds) /\ cpu.fds[fd + 1].open
Text(bytes) == \A n \in DOMAIN bytes : bytes[n] \notin NonText

\* The first closed descriptor, or a new one.
FreeFd(fds) ==
  LET free == {n \in DOMAIN fds : ~fds[n].open} IN
  IF free = {} THEN Len(fds) + 1 ELSE CHOOSE n \in free : \A k \in free : n <= k

\* A file that is opened for writing and not there is empty.
WithFile(files, path) ==
  [p \in DOMAIN files \cup {path} |-> IF p \in DOMAIN files THEN files[p] ELSE <<>>]

Open(m, path, writable) ==
  LET file == [open |-> TRUE, path |-> path, cursor |-> 0, writable |-> writable]
      n == FreeFd(m.cpu.fds) IN
  IF ~writable /\ path \notin DOMAIN m.cpu.files THEN Stopped(m, "error")
  ELSE Ran(m, SetReg([m.cpu EXCEPT
                        !.files = WithFile(@, path),
                        !.fds = SubSeq(@, 1, n - 1) \o <<file>> \o SubSeq(@, n + 1, Len(@))],
                     0, n - 1))

\* Reading ends at the end of the file.
ReadFile(m, fd, addr, count) ==
  LET f == m.cpu.fds[fd + 1]
      file == m.cpu.files[f.path]
      last == IF f.cursor + count < Len(file) THEN f.cursor + count ELSE Len(file)
      bytes == SubSeq(file, f.cursor + 1, last) IN
  RanWith(SetReg([m.cpu EXCEPT !.fds[fd + 1].cursor = last], 0, Len(bytes)),
          WriteHeap(m.heap, addr, bytes), PagesOf(addr, Len(bytes)))

\* Writing replaces what is there and extends the file.
WriteFile(m, fd, addr, count) ==
  LET f == m.cpu.fds[fd + 1]
      file == m.cpu.files[f.path] IN
  Ran(m, SetReg([m.cpu EXCEPT
                   !.files[f.path] = SubSeq(file, 1, f.cursor) \o ReadHeap(m.heap, addr, count)
                                       \o SubSeq(file, f.cursor + count + 1, Len(file)),
                   !.fds[fd + 1].cursor = @ + count], 0, count))

\* handle_syscall: the arguments are in r1, r2 and r3, the result goes to r0.
Syscall(m, num) ==
  LET arg == [n \in 1..3 |-> m.cpu.regs[n]] IN
  CASE num = 0 /\ InHeap(arg[1], arg[2]) /\ Text(ReadHeap(m.heap, arg[1], arg[2])) ->
         Open(m, ReadHeap(m.heap, arg[1], arg[2]), arg[3] # 0)
    [] num = 1 /\ InHeap(arg[2], arg[3]) /\ IsOpen(m.cpu, arg[1]) ->
         ReadFile(m, arg[1], arg[2], arg[3])
    [] num = 2 /\ InHeap(arg[2], arg[3]) /\ IsOpen(m.cpu, arg[1]) /\ m.cpu.fds[arg[1] + 1].writable ->
         WriteFile(m, arg[1], arg[2], arg[3])
    [] num = 3 /\ IsOpen(m.cpu, arg[1]) ->
         Ran(m, SetReg([m.cpu EXCEPT !.fds[arg[1] + 1] = Closed], 0, 0))
    [] OTHER -> Stopped(m, "error")

-----------------------------------------------------------------------------
(* Instructions.                                                            *)

\* The value a computing instruction puts into dst; the interpreter and the
\* compiler share the wrapping arithmetic of 64 bits.
Value(i, regs) ==
  CASE i.op = "LoadImm" -> i.val
    [] i.op = "Mov" -> regs[i.src]
    [] i.op = "Add" -> (regs[i.a] + regs[i.b]) % Word
    [] i.op = "Sub" -> (regs[i.a] - regs[i.b]) % Word
    [] i.op = "Mul" -> (regs[i.a] * regs[i.b]) % Word

Computing == {"LoadImm", "Mov", "Add", "Sub", "Mul"}

\* A branch before the first instruction wraps to a huge address.
Target(pc, off) == (pc + off) % Word

\* VMState::step. An instruction that fails changes nothing.
Step(m) ==
  IF m.cpu.pc >= Len(program) THEN Stopped(m, "halted")
  ELSE LET i == program[m.cpu.pc + 1]
           c == m.cpu IN
  CASE i.op \in Computing -> Ran(m, SetReg(c, i.dst, Value(i, c.regs)))
    [] i.op = "Jz" -> Goto(m, IF c.regs[i.cond] = 0 THEN Target(c.pc, i.off) ELSE c.pc + 1)
    [] i.op = "Jump" -> Goto(m, Target(c.pc, i.off))
    [] i.op = "Call" -> Ran(m, [c EXCEPT !.stack = Append(@, c.pc + 1), !.pc = i.addr])
    [] i.op = "Ret" /\ c.stack # <<>> ->
         Ran(m, [c EXCEPT !.stack = Front(@), !.pc = Last(c.stack)])
    [] i.op = "Print" -> Goto(m, c.pc + 1)
    [] i.op = "LoadMem" /\ c.regs[i.addr] \in Addr ->
         Ran(m, SetReg(c, i.dst, m.heap[c.regs[i.addr]]))
    [] i.op = "StoreMem" /\ c.regs[i.addr] \in Addr ->
         RanWith([c EXCEPT !.pc = @ + 1],
                 WriteHeap(m.heap, c.regs[i.addr], <<c.regs[i.src] % ByteSize>>),
                 PagesOf(c.regs[i.addr], 1))
    [] i.op = "Alloc" /\ c.top + c.regs[i.size] <= HeapLen ->
         Ran(m, SetReg([c EXCEPT !.top = @ + c.regs[i.size]], i.dst, c.top))
    [] i.op = "Syscall" -> Syscall(m, i.num)
    [] i.op = "Halt" -> Stopped(m, "halted")
    [] OTHER -> Stopped(m, "error")

\* VMState::new.
NewVm ==
  [cpu |-> [regs |-> [r \in Reg |-> 0], pc |-> 0, stack |-> <<>>, steps |-> 0, top |-> 0,
            files |-> [p \in {} |-> <<>>], fds |-> <<>>],
   heap |-> [a \in Addr |-> 0]]

NoEdit == [on |-> FALSE, from |-> NewVm, working |-> NewVm, patches |-> <<>>]
NoJit == [on |-> FALSE, block |-> 0, regs |-> <<>>, ran |-> 0]

\* A compiled function has the machine to itself.
Idle == ~jit.on

\* One step of run or run_bounded.
Run ==
  /\ Idle /\ vm.cpu.steps < MaxSteps
  /\ Step(vm).result = "ok"
  /\ vm' = Step(vm).vm
  /\ dirty' = dirty \cup Step(vm).pages
  /\ UNCHANGED <<program, snap, edit, hot, cached, jit, saves, origin>>

-----------------------------------------------------------------------------
(* Snapshots.                                                               *)

\* Snapshot::restore makes a new heap from the bytes, of which no page is dirty.
BugStackLost(s) == [s EXCEPT !.cpu.stack = <<>>]
Restored(s) == s

\* SnapshotDelta::capture: the dirty pages instead of the heap.
Delta(m, pages) ==
  [cpu |-> m.cpu, pages |-> [p \in pages |-> [a \in {b \in Addr : Page(b) = p} |-> m.heap[a]]]]

\* SnapshotDelta::apply_to: the base's heap with the pages of the delta.
ApplyTo(delta, base) ==
  [cpu |-> delta.cpu,
   heap |-> [a \in Addr |-> IF Page(a) \in DOMAIN delta.pages THEN delta.pages[Page(a)][a]
                            ELSE base.heap[a]]]

\* A full snapshot: aeon-run --snap-at, aeon-send, DaemonState::run_program.
Capture ==
  /\ Idle /\ saves < MaxSaves
  /\ snap' = vm
  /\ saves' = saves + 1
  /\ origin' = [origin EXCEPT !.snap = origin.vm]
  /\ UNCHANGED <<program, vm, dirty, edit, hot, cached, jit>>

\* The end of DaemonState::resume: the snapshot is written as base and delta.
SaveDelta ==
  /\ Idle /\ saves < MaxSaves
  /\ Step(vm).result = "halted"
  /\ snap' = ApplyTo(Delta(vm, dirty), snap)
  /\ saves' = saves + 1
  /\ origin' = [origin EXCEPT !.snap = origin.vm]
  /\ UNCHANGED <<program, vm, dirty, edit, hot, cached, jit>>

Restore ==
  /\ Idle
  /\ vm' = Restored(snap)
  /\ dirty' = {}
  /\ origin' = [origin EXCEPT !.vm = origin.snap]
  /\ UNCHANGED <<program, snap, edit, hot, cached, jit, saves>>

-----------------------------------------------------------------------------
(* Patch sets.  A patch has the old and the new value of what it changes: a *)
(* register, the pc, an entry of the call stack, a heap range, the heap top.*)

\* Can s take the patch?
Applies(p, s) ==
  CASE p.kind = "Reg" -> p.index \in Reg
    [] p.kind = "Pc" -> TRUE
    [] p.kind = "CallStackEntry" -> p.index \in DOMAIN s.cpu.stack
    [] p.kind = "HeapRange" -> InHeap(p.index, Len(p.new))
    [] p.kind = "HeapTop" -> p.new <= HeapLen

Applied(s, p) ==
  CASE p.kind = "Reg" -> [s EXCEPT !.cpu.regs[p.index] = p.new]
    [] p.kind = "Pc" -> [s EXCEPT !.cpu.pc = p.new]
    [] p.kind = "CallStackEntry" -> [s EXCEPT !.cpu.stack[p.index] = p.new]
    [] p.kind = "HeapRange" -> [s EXCEPT !.heap = WriteHeap(@, p.index, p.new)]
    [] p.kind = "HeapTop" -> [s EXCEPT !.cpu.top = p.new]

\* What s becomes patch by patch.
Stages(patches, s) ==
  LET stage[n \in 0..Len(patches)] == IF n = 0 THEN s ELSE Applied(stage[n - 1], patches[n])
  IN stage

\* PatchSet::apply: all patches in order, or an error; PatchSet::reverse.
ApplyAll(patches, s) == Stages(patches, s)[Len(patches)]
CanApply(patches, s) == \A n \in DOMAIN patches : Applies(patches[n], Stages(patches, s)[n - 1])
Undo(p) == [p EXCEPT !.old = p.new, !.new = p.old]
BugInOrder(patches) == [n \in DOMAIN patches |-> Undo(patches[n])]
Reversed(patches) == [n \in DOMAIN patches |-> Undo(patches[Len(patches) + 1 - n])]

\* What an edit finds in the place it changes.
Old(e, s) ==
  CASE e.kind = "Reg" -> s.cpu.regs[e.index]
    [] e.kind = "Pc" -> s.cpu.pc
    [] e.kind = "CallStackEntry" -> s.cpu.stack[e.index]
    [] e.kind = "HeapRange" -> ReadHeap(s.heap, e.index, Len(e.new))
    [] e.kind = "HeapTop" -> s.cpu.top

\* SnapshotEditor::new.
OpenEditor ==
  /\ Idle /\ ~edit.on
  /\ edit' = [on |-> TRUE, from |-> snap, working |-> snap, patches |-> <<>>]
  /\ UNCHANGED <<program, vm, dirty, snap, hot, cached, jit, saves, origin>>

\* set_reg, set_pc, set_call_stack_entry, set_heap_range and set_heap_top.
MakePatch(e) ==
  /\ Idle /\ edit.on /\ Len(edit.patches) < MaxPatches
  /\ Applies(e, edit.working)
  /\ LET p == [kind |-> e.kind, index |-> e.index, new |-> e.new, old |-> Old(e, edit.working)] IN
     edit' = [edit EXCEPT !.working = Applied(@, p), !.patches = Append(@, p)]
  /\ UNCHANGED <<program, vm, dirty, snap, hot, cached, jit, saves, origin>>

CloseEditor ==
  /\ Idle /\ edit.on
  /\ edit' = NoEdit
  /\ UNCHANGED <<program, vm, dirty, snap, hot, cached, jit, saves, origin>>

\* aeon-recv and aeon-console: the patches are applied and the result is restored.
ResumeEdited ==
  /\ Idle /\ edit.on /\ saves < MaxSaves
  /\ CanApply(edit.patches, snap)
  /\ LET s == ApplyAll(edit.patches, snap) IN
     /\ s.cpu.top <= HeapLen
     /\ snap' = s
     /\ vm' = Restored(s)
     /\ origin' = [vm |-> s, snap |-> s]
  /\ dirty' = {} /\ edit' = NoEdit /\ saves' = saves + 1
  /\ UNCHANGED <<program, hot, cached, jit>>

-----------------------------------------------------------------------------
(* The compiled program.                                                    *)

Branches == {pc \in 0..(Len(program) - 1) : program[pc + 1].op \in {"Jz", "Jump"}}
BranchTarget(pc) == pc + program[pc + 1].off

\* validate_program: no instruction with other effects, no branch out of the program.
Supported ==
  /\ \A n \in DOMAIN program : program[n].op \in Computing \cup {"Jz", "Jump", "Halt"}
  /\ \A pc \in Branches : BranchTarget(pc) \in 0..Len(program)

\* basic_block_leaders: where a block begins; the end of the program is a block.
BugNoFallThrough == {0, Len(program)} \cup {BranchTarget(pc) : pc \in Branches}
Leaders ==
  {0, Len(program)} \cup {BranchTarget(pc) : pc \in Branches}
    \cup {pc \in 1..Len(program) : program[pc].op \in {"Jz", "Jump", "Halt"}}
BlockEnd(b) == CHOOSE l \in Leaders : l > b /\ \A k \in Leaders : k > b => l <= k

\* touched_registers: only these are loaded and stored.
Touched ==
  {r \in Reg : \E n \in DOMAIN program :
     LET i == program[n] IN
     \/ i.op \in Computing /\ r = i.dst
     \/ i.op = "Mov" /\ r = i.src
     \/ i.op \in {"Add", "Sub", "Mul"} /\ r \in {i.a, i.b}
     \/ i.op = "Jz" /\ r = i.cond}

Compute(regs, i) ==
  IF i.op \in Computing THEN [regs EXCEPT ![i.dst] = Value(i, regs)] ELSE regs

\* The registers after each instruction of a block.
Computed(b, regs) ==
  LET after[n \in b..BlockEnd(b)] == IF n = b THEN regs ELSE Compute(after[n - 1], program[n])
  IN after

\* A block computes and then jumps, or falls through into the next one.
RunBlock(b, regs) ==
  LET end == BlockEnd(b)
      after == Computed(b, regs)[end]
      i == program[end] IN
  [on |-> TRUE, regs |-> after, ran |-> jit.ran + end - b,
   block |-> CASE i.op = "Jz" -> IF after[i.cond] = 0 THEN BranchTarget(end - 1) ELSE end
               [] i.op = "Jump" -> BranchTarget(end - 1)
               [] i.op = "Halt" -> Len(program)
               [] OTHER -> end]

\* run_hot: below the threshold, or when the program cannot be compiled or the
\* machine is not at its beginning, nothing is run.
RunHot ==
  /\ Idle
  /\ hot' = IF hot <= HotThreshold THEN hot + 1 ELSE hot
  /\ \/ hot < HotThreshold /\ UNCHANGED <<cached, jit>>
     \/ hot >= HotThreshold /\ ~cached /\ UNCHANGED <<cached, jit>>
     \/ /\ hot >= HotThreshold
        /\ cached \/ Supported
        /\ cached' = TRUE
        /\ jit' = IF vm.cpu.pc # 0 THEN jit
                  ELSE [on |-> TRUE, block |-> 0, regs |-> [r \in Touched |-> vm.cpu.regs[r]], ran |-> 0]
  /\ UNCHANGED <<program, vm, dirty, snap, edit, saves, origin>>

JitBlock ==
  /\ jit.on /\ jit.block < Len(program)
  /\ jit.ran + BlockEnd(jit.block) - jit.block <= MaxSteps
  /\ jit' = RunBlock(jit.block, jit.regs)
  /\ UNCHANGED <<program, vm, dirty, snap, edit, hot, cached, saves, origin>>

\* The compiled function stores the registers; the pc is set to the end.
WithTouched(touched, regs) == [r \in Reg |-> IF r \in DOMAIN touched THEN touched[r] ELSE regs[r]]
JitReturn ==
  /\ jit.on /\ jit.block = Len(program)
  /\ vm' = [cpu |-> [vm.cpu EXCEPT !.regs = WithTouched(jit.regs, @), !.pc = Len(program)],
            heap |-> vm.heap]
  /\ jit' = NoJit
  /\ origin' = [origin EXCEPT !.vm = vm']
  /\ UNCHANGED <<program, dirty, snap, edit, hot, cached, saves>>

-----------------------------------------------------------------------------

MachineInit ==
  /\ program \in Programs
  /\ vm = NewVm /\ dirty = {}
  /\ snap = NewVm
  /\ edit = NoEdit
  /\ hot = 0 /\ cached = FALSE /\ jit = NoJit
  /\ saves = 0
  /\ origin = [vm |-> NewVm, snap |-> NewVm]

MachineNext ==
  \/ Run \/ Capture \/ SaveDelta \/ Restore
  \/ OpenEditor \/ (\E e \in Edits : MakePatch(e)) \/ CloseEditor \/ ResumeEdited
  \/ RunHot \/ JitBlock \/ JitReturn

MachineSpec == MachineInit /\ [][MachineNext]_machineVars

-----------------------------------------------------------------------------
(* Properties.                                                              *)

Address == 0..(Word - 1)
Descriptor == [open : BOOLEAN, path : Seq(Byte), cursor : Nat, writable : BOOLEAN]

MachineType(m) ==
  /\ m.heap \in [Addr -> Byte]
  /\ LET c == m.cpu IN
     /\ c.regs \in [Reg -> Address] /\ c.pc \in Address /\ c.stack \in Seq(Address)
     /\ c.steps \in 0..MaxSteps /\ c.top \in 0..HeapLen
     /\ \A path \in DOMAIN c.files : path \in Seq(Byte) /\ c.files[path] \in Seq(Byte)
     /\ c.fds \in Seq(Descriptor)
     /\ \A n \in DOMAIN c.fds :
          c.fds[n].open => /\ c.fds[n].path \in DOMAIN c.files
                           /\ c.fds[n].cursor <= Len(c.files[c.fds[n].path])

\* Registers, heap and files keep their width, the heap top stays in the heap, and
\* an open descriptor has a file that reaches to its cursor, whatever programs and
\* users do.
TypeOK ==
  /\ program \in Programs
  /\ MachineType(vm) /\ MachineType(snap)
  /\ dirty \subseteq {Page(a) : a \in Addr}
  /\ edit.on => MachineType(edit.from) /\ MachineType(edit.working)
  /\ hot \in 0..(HotThreshold + 1) /\ cached \in BOOLEAN
  /\ jit.on => jit.block \in 0..Len(program) /\ jit.regs \in [Touched -> Address]
  /\ saves \in 0..MaxSaves

\* The states of a machine that runs on from m.
Uninterrupted(m) ==
  LET run[n \in 0..MaxSteps] == IF n = 0 THEN m ELSE Step(run[n - 1]).vm IN run

\* A machine that was saved, in full or as base and delta, and restored any number
\* of times is where a machine that was never interrupted is after as many steps.
ResumedRunAgrees ==
  /\ vm = Uninterrupted(origin.vm)[vm.cpu.steps - origin.vm.cpu.steps]
  /\ snap = Uninterrupted(origin.snap)[snap.cpu.steps - origin.snap.cpu.steps]

\* The dirty pages and the last snapshot make up the machine: no write of an
\* instruction, a system call or a restore escapes the delta.
DeltaCompletesBase ==
  LET whole == ApplyTo(Delta(vm, dirty), snap) IN
  whole.cpu = vm.cpu /\ \A a \in Addr : whole.heap[a] = vm.heap[a]

\* A patch set does to the snapshot what its editor showed, and its reverse undoes
\* it, also where its patches overlap.
ReverseUndoes ==
  edit.on => /\ CanApply(edit.patches, edit.from)
             /\ ApplyAll(edit.patches, edit.from) = edit.working
             /\ CanApply(Reversed(edit.patches), edit.working)
             /\ ApplyAll(Reversed(edit.patches), edit.working) = edit.from

\* A compiled program that returns leaves the registers as the interpreter does,
\* started in the same state; the interpreter halts without an error.
CompiledAgrees ==
  [][jit.on /\ ~jit'.on =>
       \E n \in 0..MaxSteps :
         LET m == Uninterrupted(vm)[n] IN Step(m).result = "halted" /\ m.cpu.regs = vm'.cpu.regs]_machineVars
=============================================================================
