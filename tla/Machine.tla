------------------------------- MODULE Machine -------------------------------
(***************************************************************************)
(* The program that the code generator made, running: one instruction per  *)
(* step, from the entry of main.start.  LLVM and the processor are not in  *)
(* the repository; what an instruction does is modelled from how the code  *)
(* generator uses it.                                                      *)
(*                                                                         *)
(* A call of a function of the source is an event of its own, with any     *)
(* result of Results: its body is not entered.  A slot that nothing was    *)
(* stored to holds Undef, and so does what is computed from it; a branch   *)
(* on Undef goes either way.  A register that was not computed on the path *)
(* taken is Unset.  The elements of a collection lie in the heap; one that *)
(* is no tuple of enough fields ends the run when it is taken apart.       *)
(***************************************************************************)
EXTENDS Codegen

CONSTANTS
    Results,     \* what a called function may return
    MaxEvents    \* bound: a run with so many events is abandoned

ASSUME MachineAssumption == Results \subseteq Word /\ MaxEvents \in Nat

VARIABLES
    ir,    \* the context that generate_ir left
    run    \* the state of the program, or NotRunning

NotRunning == [status |-> "none"]

\* Undef, Unset and the addresses of collections are beyond every number that
\* an instruction computes.
Undef == (MaxInt - MinInt + 1) * (MaxInt - MinInt + 1)
Unset == -Undef

(***************************************************************************)
(* What LLVM takes for a function: every block ends with its only          *)
(* terminator and branches within its function.  The interactive session   *)
(* verifies all blocks; the driver does not verify, and blocks that no     *)
(* branch leads to are deleted before they matter.                         *)
(***************************************************************************)
Targets(instr) ==
    CASE instr.op = "br" -> {instr.to}
      [] instr.op = "cond" -> {instr.then, instr.else}
      [] OTHER -> {}

Closed(G, b) ==
    LET code == G.blocks[b].code
    IN  /\ Terminated(G, b)
        /\ \A k \in DOMAIN code :
              /\ code[k].op \in Terminators => k = Len(code)
              /\ \A to \in Targets(code[k]) : G.blocks[to].fn = G.blocks[b].fn

WellFormed(G) == \A b \in DOMAIN G.blocks : Closed(G, b)

Entries(G) ==
    {b \in DOMAIN G.blocks :
       \A a \in 1..(b - 1) : G.blocks[a].fn # G.blocks[b].fn}

RECURSIVE ReachedFrom(_, _)
ReachedFrom(G, bs) ==
    LET next == bs \union UNION {Targets(Last(G.blocks[b].code)) :
                                   b \in {a \in bs : Terminated(G, a)}}
    IN  IF next = bs THEN bs ELSE ReachedFrom(G, next)

Runnable(G) ==
    /\ ~G.broken
    /\ \A b \in ReachedFrom(G, Entries(G)) : Closed(G, b)

(***************************************************************************)
(* Operands and arithmetic.                                                *)
(***************************************************************************)
ValueOf(v) ==
    IF "const" \in DOMAIN v THEN v.const
    ELSE IF "reg" \in DOMAIN v THEN run.regs[v.reg]
    ELSE Undef

Fit(n, ty) ==
    IF n >= Undef \/ n = Unset THEN n
    ELSE IF ty = "i1" THEN n % 2 ELSE Wrapped(n)

Bit(b) == IF b THEN 1 ELSE 0

Apply(op, a, b) ==
    IF Undef \in {a, b} THEN Undef
    ELSE CASE op = "+" -> a + b
           [] op = "-" -> a - b
           [] op = "*" -> a * b
           [] op = "==" -> Bit(a = b)
           [] op = "!=" -> Bit(a # b)
           [] op = "<" -> Bit(a < b)
           [] op = ">" -> Bit(a > b)
           [] op = "<=" -> Bit(a <= b)
           [] op = ">=" -> Bit(a >= b)
           [] op = "&&" -> Bit(a = 1 /\ b = 1)
           [] op = "||" -> Bit(a = 1 \/ b = 1)

(***************************************************************************)
(* The instruction that is next, and the values it reads.                  *)
(***************************************************************************)
code == ir.blocks[run.block].code
instr == code[run.pc]
AtRun(ops) == run.status = "running" /\ instr.op \in ops

Reads(i) ==
    CASE i.op \in {"store", "cond", "ret", "exit"} -> {ValueOf(i.value)}
      [] i.op = "phi" -> {ValueOf(i.from[run.came])}
      [] i.op \in {"call", "collect"} ->
            {ValueOf(i.args[k]) : k \in DOMAIN i.args}
      [] i.op \in {"length", "element"} -> {ValueOf(i.of)}
      [] i.op \in {"load", "br"} -> {}
      [] OTHER -> {ValueOf(i.a), ValueOf(i.b)}

Dangling == run.status = "running" /\ Unset \in Reads(instr)

Start ==
    /\ run = NotRunning
    /\ run' = [status |-> "running", block |-> 1, pc |-> 1, came |-> 0,
               slots |-> [s \in DOMAIN ir.slots |-> Undef],
               regs |-> [r \in 1..ir.regs |-> Unset], heap |-> << >>,
               events |-> << >>]
    /\ UNCHANGED ir

Stop(status) == run' = [run EXCEPT !.status = status]

\* The register of the instruction gets n; the next instruction follows.
Yield(n) ==
    run' = [run EXCEPT !.pc = @ + 1,
              !.regs = IF "reg" \in DOMAIN instr
                       THEN [@ EXCEPT ![instr.reg] = Fit(n, instr.ty)] ELSE @]

Jump(to) == run' = [run EXCEPT !.block = to, !.pc = 1, !.came = run.block]

StoreStep ==
    /\ AtRun({"store"}) /\ ~Dangling
    /\ run' = [run EXCEPT !.pc = @ + 1,
                 !.slots[instr.slot] = Fit(ValueOf(instr.value),
                                           ir.slots[instr.slot])]
    /\ UNCHANGED ir

Compute ==
    /\ AtRun({"load", "phi", "+", "-", "*", "&&", "||"} \union Comparisons)
    /\ ~Dangling
    /\ Yield(CASE instr.op = "load" -> run.slots[instr.slot]
                 [] instr.op = "phi" -> ValueOf(instr.from[run.came])
                 [] OTHER ->
                      Apply(instr.op, ValueOf(instr.a), ValueOf(instr.b)))
    /\ UNCHANGED ir

Collect ==
    /\ AtRun({"collect"}) /\ ~Dangling
    /\ run' = [run EXCEPT !.pc = @ + 1,
                 !.regs[instr.reg] = Undef + Len(run.heap) + 1,
                 !.heap = Append(@, [of |-> instr.of,
                    items |-> [k \in DOMAIN instr.args |->
                                 ValueOf(instr.args[k])]])]
    /\ UNCHANGED ir

\* The length of a collection, or a field of one of its elements.
Inspect ==
    /\ AtRun({"length", "element"}) /\ ~Dangling
    /\ LET whole == run.heap[ValueOf(instr.of) - Undef]
           element == whole.items[ValueOf(instr.index) + 1]
           fields == run.heap[element - Undef].items
       IN  IF ValueOf(instr.of) <= Undef THEN Stop("fault")
           ELSE IF instr.op = "length" THEN Yield(Len(whole.items))
           ELSE IF \/ whole.of = "TupleExpression" \/ element <= Undef
                   \/ instr.field > Len(fields)
           THEN Stop("fault")
           ELSE Yield(fields[instr.field])
    /\ UNCHANGED ir

CallEvent ==
    /\ AtRun({"call"}) /\ ~Dangling
    /\ IF Len(run.events) = MaxEvents
       THEN Stop("abandoned")
       ELSE \E r \in IF instr.name = "write" THEN {Undef} ELSE Results :
              LET args == [k \in DOMAIN instr.args |-> ValueOf(instr.args[k])]
                  event == [name |-> instr.name, args |-> args, result |-> r]
              IN  run' = [run EXCEPT !.pc = @ + 1,
                    !.events = Append(@, event),
                    !.regs = IF "reg" \in DOMAIN instr
                             THEN [@ EXCEPT ![instr.reg] =
                                     IF instr.name = "write" THEN args[1] ELSE r]
                             ELSE @]
    /\ UNCHANGED ir

Branch ==
    /\ AtRun({"br", "cond"}) /\ ~Dangling
    /\ IF instr.op = "br" THEN Jump(instr.to)
       ELSE LET v == ValueOf(instr.value)
            IN  \/ v # 0 /\ Jump(instr.then)
                \/ v \in {0, Undef} /\ Jump(instr.else)
    /\ UNCHANGED ir

Exit == AtRun({"exit"}) /\ ~Dangling /\ Stop("exited") /\ UNCHANGED ir

\* A register is read that this path did not compute.
ReadUnset == Dangling /\ Stop("dangling") /\ UNCHANGED ir

MachineNext ==
    \/ Start \/ StoreStep \/ Compute \/ Collect \/ Inspect \/ CallEvent
    \/ Branch \/ Exit \/ ReadUnset
==============================================================================
