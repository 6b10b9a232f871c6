------------------------------- MODULE KDeps -------------------------------
(* tools/kconfig/symbol.c: sym_check_deps, which conf_parse calls for every    *)
(* symbol, refuses a Kconfig whose dependencies go in circles, which           *)
(* sym_calc_value would silently cut.  deps[s] is the sequence of the symbols  *)
(* in dir_dep, rev_dep, implied and the visible properties of s, in the order  *)
(* they are visited.                                                           *)
EXTENDS Integers, Sequences, FiniteSets, SequencesExt, Graphs

CONSTANTS Outside,  \* symbols outside the choice
          Members,  \* the values of the choice
          Choice    \* the symbol of the choice, which has no name to depend on

VARIABLES deps, left,   \* left: the symbols conf_parse has not come to
          checked,      \* those with SYMBOL_CHECKED
          errors,       \* how many checks failed
          chain         \* what sym_check_print_recursive printed, <<>> or the stack's symbols
dvars == <<deps, left, checked, errors, chain>>

Syms == Outside \cup Members \cup {Choice}
Group(s) == IF s \in Members THEN Choice ELSE s
NoSym == ""

\* f: check, checked (the flags), stack (dep_stack), chain (what was printed)
\* and found (the value returned, NoSym if all is well).
dep_stack_insert(f, s) == [f EXCEPT !.stack = Append(@, s)]
dep_stack_remove(f) == [f EXCEPT !.stack = Front(@)]

sym_check_print_recursive(f, last) ==
  LET full == IF last \in Members THEN Append(f.stack, last) ELSE f.stack
      from == SelectLastInSeq(full, LAMBDA s : s = Group(last))
  IN  [f EXCEPT !.chain = IF from = 0 THEN <<NoSym>> ELSE SubSeq(full, from, Len(full))]

RECURSIVE sym_check_deps(_, _)
Until(Op(_, _), f, seq) == FoldLeft(LAMBDA g, s : IF g.found # NoSym THEN g ELSE Op(g, s), f, seq)
sym_check_sym_deps(f, s) == dep_stack_remove(Until(sym_check_deps, dep_stack_insert(f, s), deps[s]))

sym_check_choice_deps(f, choice) ==
  LET a == [dep_stack_insert(f, choice) EXCEPT !.check = @ \cup Members \cup {choice}, !.checked = @ \cup Members \cup {choice}]
      b == sym_check_sym_deps(a, choice)
      c == Until(sym_check_sym_deps, [b EXCEPT !.check = @ \ {choice}], SetToSeq(Members))
  IN  dep_stack_remove([c EXCEPT !.check = @ \ Members, !.found = IF @ \in Members THEN choice ELSE @])

sym_check_deps_once(f, s) ==
  IF s \in f.checked THEN f
  ELSE [sym_check_sym_deps([f EXCEPT !.check = @ \cup {s}, !.checked = @ \cup {s}], s) EXCEPT !.check = @ \ {s}]
sym_check_deps(f, s) ==
  IF s \in f.check THEN [sym_check_print_recursive(f, s) EXCEPT !.found = s]
  ELSE IF s \in f.checked THEN f
  ELSE IF s \in Members THEN dep_stack_remove(sym_check_deps(dep_stack_insert(f, s), Choice))
  ELSE IF s = Choice THEN sym_check_choice_deps(f, s)
  ELSE [sym_check_sym_deps([f EXCEPT !.check = @ \cup {s}, !.checked = @ \cup {s}], s) EXCEPT !.check = @ \ {s}]

----------------------------------------------------------------------------
Init == deps = [s \in Syms |-> <<>>] /\ left = {} /\ checked = {} /\ errors = 0 /\ chain = <<>>
\* The parser has read a Kconfig, in which a symbol names at most one other, and
\* menu_finalize has made every value of the choice depend on the choice.
Parse ==
  /\ left = {} /\ checked = {} /\ left' = Syms
  /\ \E d \in [Syms -> {<<>>} \cup {<<s>> : s \in Syms \ {Choice}}] :
       /\ ToSet(d[Choice]) \subseteq Outside
       /\ deps' = [s \in Syms |-> IF s \in Members THEN <<Choice>> \o d[s] ELSE d[s]]
  /\ UNCHANGED <<checked, errors, chain>>
\* conf_parse: one more symbol of the hash table.
Check(s) ==
  /\ s \in left /\ left' = left \ {s}
  /\ LET f == sym_check_deps([check |-> {}, checked |-> checked, stack |-> <<>>, chain |-> <<>>, found |-> NoSym], s)
     IN  checked' = f.checked /\ errors' = errors + (IF f.found = NoSym THEN 0 ELSE 1) /\ chain' = f.chain
  /\ UNCHANGED deps
Next == Parse \/ \E s \in Syms : Check(s)
Spec == Init /\ [][Next]_dvars

----------------------------------------------------------------------------
Edges == UNION {{<<Group(s), Group(t)>> : t \in ToSet(deps[s]) \ {Choice}} : s \in Syms}
Cyclic == HasCycle([node |-> {Group(s) : s \in Syms}, edge |-> Edges])

\* Whatever order the symbols are checked in, some check fails exactly if the
\* dependencies, with a choice and its values taken as one, have a cycle.
RejectsCycles == left = {} => (errors > 0 <=> Cyclic)

\* What is printed is a cycle: every symbol depends on the next, or is in the
\* same choice, and the last on the first.  "unexpected recursive dependency
\* error" (symbol.c:1058) is never printed.
PrintsCycle ==
  \A i \in 1 .. Len(chain) :
    LET a == chain[i]
        b == chain[IF i = Len(chain) THEN 1 ELSE i + 1]
    IN  a # NoSym /\ (Group(a) = Group(b) \/ b \in ToSet(deps[a]))

\* As long as nothing was found, whatever a checked symbol reaches has been
\* checked, the values of its choice included: SYMBOL_CHECKED hides nothing.
Covers == errors = 0 => \A s \in checked : Group(s) \in checked /\ ToSet(deps[s]) \subseteq checked
=============================================================================
