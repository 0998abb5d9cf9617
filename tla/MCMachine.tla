------------------------------ MODULE MCMachine ------------------------------
(* Programs and edits that TLC can explore, and Forth sources: the machine and the
   interpreter inside it are two topics, explored one by one. *)
EXTENDS Machine, Forth
VARIABLE topic

Load(r, v) == [op |-> "LoadImm", dst |-> r, val |-> v]
Add(d, x, y) == [op |-> "Add", dst |-> d, a |-> x, b |-> y]
Sub(d, x, y) == [op |-> "Sub", dst |-> d, a |-> x, b |-> y]
Mul(d, x, y) == [op |-> "Mul", dst |-> d, a |-> x, b |-> y]
Mov(d, s) == [op |-> "Mov", dst |-> d, src |-> s]
Jz(r, n) == [op |-> "Jz", cond |-> r, off |-> n]
Jump(n) == [op |-> "Jump", off |-> n]
Store(x, s) == [op |-> "StoreMem", addr |-> x, src |-> s]
LoadMem(d, x) == [op |-> "LoadMem", dst |-> d, addr |-> x]
Alloc(d, s) == [op |-> "Alloc", dst |-> d, size |-> s]
Call(x) == [op |-> "Call", addr |-> x]
Ret == [op |-> "Ret"]
Show(x) == [op |-> "Print", r |-> x]
Sys(n) == [op |-> "Syscall", num |-> n]
Halt == [op |-> "Halt"]

\* A countdown whose product wraps, with a branch at its last instruction.
Countdown == <<Load(0, 2), Load(1, 1), Load(2, 3), Jz(0, 5), Sub(0, 0, 1), Mul(2, 2, 2),
               Add(3, 3, 1), Jump(-4), Halt, Mov(3, 2), Jz(3, -2)>>
\* A subroutine that allocates and stores; its second call finds the heap full.
Allocating == <<Load(1, 3), Load(0, 1), Call(4), Jump(-1), Alloc(2, 1), Store(2, 1),
                LoadMem(3, 2), Show(3), Ret>>
\* A file is written and read back to another page, then a bad address is stored to.
Filing == <<Load(2, 1), Load(3, 1), Sys(0), Load(3, 2), Store(3, 3), Load(3, 3), Sys(2), Sys(3),
            Load(2, 1), Load(3, 0), Sys(0), Load(2, 3), Load(3, 2), Sys(1), Load(2, 5), Store(2, 2)>>
\* A branch over an instruction, taken or not after an edit of the register.
Skipping == <<Jz(0, 2), Load(1, 1), Mov(2, 1), Halt>>
\* A branch before the first instruction, a system call that must fail, a return from nowhere.
Stray == <<Jz(0, 3), Sys(0), Halt, Jz(1, 2), Jump(-5), Ret>>

MCPrograms == {Countdown, Allocating, Filing, Skipping, Stray}

MCEdits == {[kind |-> "Reg", index |-> 0, new |-> 1], [kind |-> "Pc", index |-> 0, new |-> 0],
            [kind |-> "CallStackEntry", index |-> 1, new |-> 5],
            [kind |-> "HeapRange", index |-> 0, new |-> <<1, 2>>],
            [kind |-> "HeapRange", index |-> 1, new |-> <<3>>],
            [kind |-> "HeapTop", index |-> 0, new |-> 1]}

T(t) == [k |-> "token", t |-> t]
N(t, x) == [k |-> "name", t |-> t, name |-> x]
Body(k, tree) == [k |-> k, body |-> tree]
MCNumbers == ("0" :> 0) @@ ("1" :> 1) @@ ("2" :> 2)
Leaves == {T(t) : t \in {"0", "2", "dup", "swap", "-", "<", ".", "i", "w"}}
          \cup {N("set", "x"), N("get", "x"), N("var", "x")}
Inner == {Body(k, <<l>>) : k \in {"if", "do"}, l \in Leaves}
Trees == {<<l, n>> : l \in Leaves, n \in Inner} \cup {<<n, l>> : l \in Leaves, n \in Inner}
\* A word that calls itself, one with a name of its own, one that uses a loop's index.
Bodies == {<<T("dup"), Body("if", <<T("1"), T("-"), T("w")>>)>>,
           <<N("var", "x"), T("over"), N("set", "x"), N("get", "x"), T("+")>>,
           <<T("i"), N("set", "x"), T("2"), T("1"), Body("do", <<T("i"), T("*")>>)>>}
SourceWith(layout, tree, body) ==
  [layout |-> layout, words |-> <<[name |-> "w", body |-> body]>>, main |-> tree]
MCSources ==
  {SourceWith("included", <<T(a), T("2"), T(b), Body(k, tree), T("."), N("get", "x")>>, body) :
     a \in {"0", "1"}, b \in {"0", "2"}, k \in {"if", "do"}, tree \in Trees, body \in Bodies}
  \cup {SourceWith(l, <<T("2")>> \o tree \o <<T("depth"), T("drop"), T(">"), T("=")>>, body) :
          l \in {"before", "after", "unclosed", "stray", "absent", "endless"}, tree \in Trees, body \in Bodies}

FirstSource == SourceWith("before", <<T("2"), T("0"), Body("if", <<T("0")>>), T("depth"), T("drop"), T(">"), T("=")>>,
                          <<T("dup"), Body("if", <<T("1"), T("-"), T("w")>>)>>)
MCInit ==
  /\ topic \in {"machine", "forth"}
  /\ topic = "machine" => source = FirstSource
  /\ topic = "forth" => program = Skipping
  /\ MachineInit /\ ForthInit
MCNext ==
  /\ UNCHANGED topic
  /\ \/ topic = "machine" /\ UNCHANGED forthVars /\ MachineNext
     \/ topic = "forth" /\ UNCHANGED machineVars /\ ForthNext
MCSpec == MCInit /\ [][MCNext]_<<topic, machineVars, forthVars>>
=============================================================================
