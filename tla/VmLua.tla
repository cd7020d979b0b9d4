-------------------------------- MODULE VmLua --------------------------------
(***************************************************************************)
(* The machine implements Lua's calls: its frames, registers, cells and    *)
(* the values it shifts about are lists of values and shared variables.    *)
(***************************************************************************)
EXTENDS Vm

(* What each temporary holds, up to the top when the row is open.          *)
TempsOf(f) ==
  LET first == TempSlot(f, 1)
      count == IF f.spread THEN f.top - first ELSE f.temps
  IN  [t \in 1 .. count |-> At(values, first + t - 1)]

ExtraOf(f) == [k \in 1 .. f.varargs |-> At(values, f.base - f.varargs + k - 1)]

CallsOf ==
  [k \in 1 .. Depth |->
     [func |-> frames[k].func, vars |-> frames[k].vars, extra |-> ExtraOf(frames[k]),
      temps |-> TempsOf(frames[k]), want |-> frames[k].want]]

(* A variable in scope is its register, any other is in its cell.          *)
ValueOf(x) ==
  IF \E k \in 1 .. Depth : x \in Listed(frames[k].vars)
  THEN LET f == frames[CHOOSE k \in 1 .. Depth : x \in Listed(frames[k].vars)]
       IN  At(values, LocalSlot(f, CHOOSE i \in 1 .. Len(f.vars) : f.vars[i] = x))
  ELSE cells[CHOOSE c \in 1 .. Len(cells) : owner[c] = x /\ cells[c].kind = "Closed"].value

VariablesOf(f) == [proto |-> f.proto, upvals |-> [j \in 1 .. Len(f.upvals) |-> owner[f.upvals[j]]]]

Ended == outcome = "error"

CallsNow == IF Ended THEN <<>> ELSE CallsOf
StoreNow == IF Ended THEN [x \in {} |-> Nil] ELSE [x \in InUse(frames) |-> ValueOf(x)]
ClosuresNow == [f \in 1 .. Len(functions) |-> VariablesOf(functions[f])]

Lua == INSTANCE LuaCalls WITH
  calls <- CallsNow, store <- StoreNow, closures <- ClosuresNow

(* Every run of the machine is a run of LuaCalls: arguments, `...`, results *)
(* and captured variables are what they would be with no stack at all.      *)
ImplementsLuaCalls == Lua!LuaSpec
==============================================================================
