------------------------------- MODULE KConf -------------------------------
(* The configuration tool: tools/kconfig/confdata.c writes and reads .config  *)
(* and the minimal defconfig and answers all new symbols at once; conf.c asks *)
(* for them.  A file is the sequence of its lines <<symbol, value>>, a line   *)
(* "# CONFIG_X is not set" being the value 0 of a tristate.                   *)
(* tools/kconfig/symbol.c: how the values of the symbols of a Kconfig follow  *)
(* from what the user set, from dependencies, selects, implies, defaults,     *)
(* ranges and choices.  K is the Kconfig after menu_finalize: for a symbol    *)
(* its type, the visibility of its prompts, dir_dep, rev_dep, implied, its    *)
(* defaults and ranges, its choice and, of a choice, its values in order.     *)
(* sym_calc_value is lazy and keeps its results in the symbols, so st is      *)
(* threaded through every operator:                                           *)
(*   valid, has, write, need   the sets of symbols with the flags VALID,      *)
(*                             DEF_USER, WRITE, NEED_SET_CHOICE_VALUES        *)
(*   tri, num, sel             curr: of a tristate, a number, a choice        *)
(*   utri, unum, usel          def[S_DEF_USER]                                *)
(*   vis, dir, rev, imp        visible and the dependencies' values           *)
(*   modv                      modules_val                                    *)
(*   changes                   whether sym_change_count is not 0              *)
EXTENDS Integers, Sequences, FiniteSets, SequencesExt

CONSTANTS Kconfigs,  \* the Kconfigs, by name
          MaxSteps,  \* how many changes a session makes
          Numbers    \* what the user types for an int

VARIABLES K,       \* the Kconfig that was parsed
          syms,    \* the symbols
          config,  \* .config
          steps
cvars == <<K, syms, config, steps>>

----------------------------------------------------------------------------
Names == DOMAIN K.sym
IsChoice(s) == K.sym[s].members # <<>>
InChoice(s) == K.sym[s].choice # ""
ChoiceOf(s) == K.sym[s].choice
IsNum(s) == K.sym[s].type = "int"
Empty == -1  \* the empty string of an int symbol without a value

\* F of x: where the code calls one function after the other on the symbols.
With(x, F(_)) == CHOOSE y \in {F(z) : z \in {x}} : TRUE
\* A loop that calls F for each member of a sequence in turn.
Each(F(_, _), x, seq) == FoldLeft(LAMBDA a, s : With(a, LAMBDA b : F(b, s)), x, seq)

Or(a, b) == IF a > b THEN a ELSE b
And(a, b) == IF a < b THEN a ELSE b
Sure == [t |-> "NONE"]  \* the NULL expression
Const == [y |-> 2, m |-> 1, n |-> 0]

Fresh == [valid |-> {}, has |-> {}, write |-> {}, need |-> {}, tri |-> [s \in Names |-> 0], num |-> [s \in Names |-> Empty],
          sel |-> [s \in Names |-> ""], utri |-> [s \in Names |-> 0], unum |-> [s \in Names |-> Empty],
          usel |-> [s \in Names |-> ""], vis |-> [s \in Names |-> 0], dir |-> [s \in Names |-> 0],
          rev |-> [s \in Names |-> 0], imp |-> [s \in Names |-> 0], modv |-> 0, changes |-> FALSE]

\* A tristate counts as boolean without modules, and as a visible value of a choice.
sym_get_type(st, s) ==
  IF K.sym[s].type = "tri" /\ ((InChoice(s) /\ st.vis[s] = 2) \/ st.modv = 0) THEN "bool" ELSE K.sym[s].type
Promoted(st, s, v) == IF v = 1 /\ sym_get_type(st, s) = "bool" THEN 2 ELSE v

RECURSIVE sym_calc_value(_, _)
\* <<st, value>> of an expression; a comparison is of a symbol with a constant.
RECURSIVE Eval(_, _)
Eval(st, e) ==
  CASE e.t = "NONE" -> <<st, 2>>
    [] e.t = "SYMBOL" /\ e.s \in DOMAIN Const -> <<st, Const[e.s]>>
    [] e.t \in {"SYMBOL", "EQUAL"} /\ e.s \notin DOMAIN Const ->
         With(sym_calc_value(st, e.s), LAMBDA a :
           <<a, IF e.t = "SYMBOL" THEN a.tri[e.s] ELSE IF a.tri[e.s] = Const[e.c] THEN 2 ELSE 0>>)
    [] e.t = "NOT" -> With(Eval(st, e.l), LAMBDA a : <<a[1], 2 - a[2]>>)
    [] e.t \in {"AND", "OR"} ->
         With(Eval(st, e.l), LAMBDA a :
           With(Eval(a[1], e.r), LAMBDA b : <<b[1], IF e.t = "AND" THEN And(a[2], b[2]) ELSE Or(a[2], b[2])>>))

\* The first property of a sequence whose condition is not n: <<st, its index
\* or 0, its visibility>> (sym_get_default_prop and sym_get_range_prop).
FirstVisible(st, props) ==
  Each(LAMBDA acc, i : IF acc[2] # 0 THEN acc
                       ELSE With(Eval(acc[1], props[i].c), LAMBDA a : IF a[2] # 0 THEN <<a[1], i, a[2]>> ELSE <<a[1], 0, 0>>),
       <<st, 0, 0>>, [i \in 1 .. Len(props) |-> i])
sym_get_default_prop(st, s) == FirstVisible(st, K.sym[s].defs)
sym_get_range_prop(st, s) == FirstVisible(st, K.sym[s].ranges)

sym_validate_range(st, s) ==
  IF ~ IsNum(s) THEN st
  ELSE With(sym_get_range_prop(st, s), LAMBDA p :
         LET r == K.sym[s].ranges[p[2]]
             v == IF p[1].num[s] = Empty THEN 0 ELSE p[1].num[s]  \* strtoll of ""
         IN  IF p[2] = 0 \/ (r.lo <= v /\ v <= r.hi) THEN p[1]
             ELSE [p[1] EXCEPT !.num[s] = IF v < r.lo THEN r.lo ELSE r.hi])

sym_calc_visibility(st, s) ==
  LET k == K.sym[s]
      Hidden(a) == InChoice(s) /\ k.type = "tri" /\ a[2] = 1 /\ a[1].tri[ChoiceOf(s)] = 2
      Seen(p) == [p[1] EXCEPT !.vis[s] = IF p[2] = 1 /\ (k.type # "tri" \/ p[1].modv = 0) THEN 2 ELSE p[2]]
  IN  With(Each(LAMBDA acc, i : With(Eval(acc[1], k.prompts[i]), LAMBDA a : <<a[1], Or(acc[2], IF Hidden(a) THEN 0 ELSE a[2])>>),
                <<st, 0>>, [i \in 1 .. Len(k.prompts) |-> i]), LAMBDA p :
        \* dir_dep, rev_dep, implied; the last two are n when there is none
        Each(LAMBDA x, d : With(IF d # "dir" /\ k[d] = Sure THEN <<x, 0>> ELSE Eval(x, k[d]), LAMBDA a :
                                [a[1] EXCEPT ![d][s] = Promoted(a[1], s, a[2])]),
             Seen(p), IF InChoice(s) THEN <<>> ELSE <<"dir", "rev", "imp">>))

----------------------------------------------------------------------------
\* The value of a choice: <<st, symbol or "">>.
sym_choice_default(st, s) ==
  With(Each(LAMBDA acc, i : IF acc[2] # "" THEN acc
                            ELSE With(Eval(acc[1], K.sym[s].defs[i].c), LAMBDA a :
                                   LET d == K.sym[s].defs[i].v.s IN <<a[1], IF a[2] # 0 /\ a[1].vis[d] # 0 THEN d ELSE "">>),
            <<st, "">>, [i \in 1 .. Len(K.sym[s].defs) |-> i]), LAMBDA first :
    LET seen == SelectSeq(K.sym[s].members, LAMBDA c : first[1].vis[c] # 0)
    IN  IF first[2] # "" \/ seen = <<>> THEN first ELSE <<first[1], seen[1]>>)

\* A choice has a user value only if every visible value of it has one.
sym_calc_choice(st, s) ==
  LET Known(a) == LET news == {c \in ToSet(K.sym[s].members) : a.vis[c] # 0 /\ c \notin a.has}
                  IN  [a EXCEPT !.has = IF news = {} THEN @ ELSE @ \ {s}]
  IN  With(Known(Each(sym_calc_visibility, st, K.sym[s].members)), LAMBDA b :
        With(IF b.usel[s] # "" /\ b.vis[b.usel[s]] # 0 THEN <<b, b.usel[s]>> ELSE sym_choice_default(b, s), LAMBDA d :
          [d[1] EXCEPT !.tri[s] = IF d[2] = "" THEN 0 ELSE @, !.sel[s] = d[2]]))

set_all_choice_values(st, s) ==
  [st EXCEPT !.utri = [c \in Names |-> IF c \in ToSet(K.sym[s].members) /\ c \notin st.has THEN 0 ELSE st.utri[c]],
             !.has = @ \cup {s}, !.valid = @ \ {s}, !.need = @ \ {s}]

\* The new value of a boolean or tristate symbol.
CalcTristate(st, s) ==
  LET given == st.vis[s] # 0 /\ s \in st.has
      fixed == [st EXCEPT !.write = IF st.rev[s] # 0 THEN @ \cup {s} ELSE @]
      Implied(d) ==
        LET implied == d[1].imp[s] # 0 /\ ~ IsChoice(s)
        IN  <<[d[1] EXCEPT !.write = IF d[2] # 0 \/ implied THEN @ \cup {s} ELSE @],
              IF implied THEN And(Or(d[2], d[1].imp[s]), d[1].dir[s]) ELSE d[2]>>
      Selected(n) == [n[1] EXCEPT !.tri[s] = Promoted(n[1], s, Or(n[2], n[1].rev[s]))]
  IN  IF InChoice(s) /\ st.vis[s] = 2 THEN [st EXCEPT !.tri[s] = IF st.sel[ChoiceOf(s)] = s THEN 2 ELSE 0]
      ELSE IF given THEN Selected(<<st, And(st.utri[s], st.vis[s])>>)
      ELSE With(IF IsChoice(s) THEN <<fixed, 0, 0>> ELSE sym_get_default_prop(fixed, s), LAMBDA p :
             With(IF p[2] = 0 THEN <<p[1], 0>>
                  ELSE With(Eval(p[1], K.sym[s].defs[p[2]].v), LAMBDA a : <<a[1], And(a[2], p[3])>>), LAMBDA d :
               Selected(Implied(d))))

CalcNumber(st, s) ==
  IF st.vis[s] # 0 /\ s \in st.has THEN [st EXCEPT !.num[s] = st.unum[s]]
  ELSE With(sym_get_default_prop(st, s), LAMBDA p :
         IF p[2] = 0 THEN p[1] ELSE [p[1] EXCEPT !.num[s] = K.sym[s].defs[p[2]].v, !.write = @ \cup {s}])

\* The end of sym_calc_value: modules_val, the values of a choice.
Finish(st, s) ==
  LET Members(x) ==
        [x EXCEPT !.modv = IF K.modules = s THEN x.tri[s] ELSE @,
                  !.write = IF ~ IsChoice(s) \/ s \notin x.write THEN @
                            ELSE (@ \ {s}) \cup {m \in ToSet(K.sym[s].members) : x.vis[m] # 0}]
  IN  With(IF IsChoice(s) /\ st.tri[s] = 2 THEN sym_calc_choice(st, s) ELSE st, LAMBDA x :
        With(Members(sym_validate_range(x, s)), LAMBDA y : IF s \in y.need THEN set_all_choice_values(y, s) ELSE y))

sym_calc_value(st, s) ==
  LET need == InChoice(s) /\ s \in st.need
      Begun(x) == [x EXCEPT !.valid = @ \cup {s}, !.write = @ \ {s}]
      Clear(x) == [x EXCEPT !.write = IF x.vis[s] # 0 THEN @ \cup {s} ELSE @, !.tri[s] = 0, !.num[s] = Empty, !.sel[s] = ""]
  IN  IF s \in st.valid \/ s \in DOMAIN Const THEN st
      ELSE With(IF need THEN sym_calc_value([st EXCEPT !.need = @ \ {s}], ChoiceOf(s)) ELSE st, LAMBDA x :
             With(Clear(sym_calc_visibility(Begun(x), s)), LAMBDA y :
               With(IF IsNum(s) THEN CalcNumber(y, s) ELSE CalcTristate(y, s), LAMBDA z : Finish(z, s))))

RECURSIVE CalcAll(_, _)
CalcAll(st, order) ==
  IF order = <<>> THEN st ELSE With(sym_calc_value(st, Head(order)), LAMBDA x : CalcAll(x, Tail(order)))
sym_clear_all_valid(st) == sym_calc_value([st EXCEPT !.valid = {}, !.changes = TRUE], K.modules)

----------------------------------------------------------------------------
\* Setting values; <<st, accepted>>.
sym_tristate_within_range(st, s, v) ==
  /\ st.vis[s] # 0
  /\ ~ (sym_get_type(st, s) = "bool" /\ v = 1)
  /\ st.vis[s] > st.rev[s]
  /\ IF InChoice(s) /\ st.vis[s] = 2 THEN v = 2 ELSE st.rev[s] <= v /\ v <= st.vis[s]
sym_set_tristate_value(st, s, v) ==
  LET old == st.tri[s]
      cs == ChoiceOf(s)
      a == [st EXCEPT !.has = @ \cup {s}, !.utri[s] = v]
      b == IF ~ InChoice(s) \/ v # 2 THEN a
           ELSE [a EXCEPT !.usel[cs] = s, !.has = @ \cup {cs} \cup {m \in ToSet(K.sym[cs].members) : st.vis[m] # 0}]
  IN  IF old # v /\ ~ sym_tristate_within_range(st, s, v) THEN <<st, FALSE>>
      ELSE <<IF old # v THEN sym_clear_all_valid(b) ELSE b, TRUE>>

\* no, mod, yes, no again, until one is accepted.
RECURSIVE ToggleTo(_, _, _, _)
ToggleTo(st, s, old, v) ==
  LET n == (v + 1) % 3
  IN  With(sym_set_tristate_value(st, s, n), LAMBDA p : IF p[2] \/ n = old THEN p[1] ELSE ToggleTo(p[1], s, old, n))
sym_toggle_tristate_value(st, s) == ToggleTo(st, s, st.tri[s], st.tri[s])

sym_string_within_range(st, s, v) ==
  With(sym_get_range_prop(st, s), LAMBDA p :
    LET r == K.sym[s].ranges[p[2]] IN p[2] = 0 \/ (r.lo <= v /\ v <= r.hi))
sym_set_string_value(st, s, v) ==
  IF ~ sym_string_within_range(st, s, v) THEN <<st, FALSE>>
  ELSE LET a == [st EXCEPT !.has = @ \cup {s}, !.unum[s] = v]
       IN  <<IF st.unum[s] = v THEN a ELSE sym_clear_all_valid(a), TRUE>>

\* The value a symbol would have by default, as text: a number, or n, m, y as 0, 1, 2.
sym_get_string_default(st, s) ==
  LET Default(p) == IF p[2] = 0 THEN 0 ELSE With(Eval(p[1], K.sym[s].defs[p[2]].v), LAMBDA x : And(x[2], p[3]))
      Tristate(p) == With(Or(Default(p), p[1].rev[s]), LAMBDA v :
        Or(p[1].imp[s], IF v = 1 /\ ((~ InChoice(s) /\ p[1].modv = 0) \/ K.sym[s].type = "bool") THEN 2 ELSE v))
      Number(p) == IF p[2] = 0 THEN Empty ELSE K.sym[s].defs[p[2]].v
  IN  With(sym_get_default_prop(sym_calc_value(sym_calc_visibility(st, s), K.modules), s), LAMBDA p : IF IsNum(s) THEN Number(p) ELSE Tristate(p))
sym_get_string_value(st, s) ==
  IF IsNum(s) THEN st.num[s] ELSE IF st.tri[s] = 1 /\ (K.modules = "n" \/ st.tri[K.modules] = 0) THEN 0 ELSE st.tri[s]
sym_is_changeable(st, s) == st.vis[s] > st.rev[s]

----------------------------------------------------------------------------
\* conf_write: the menus in order, each symbol once, if it has WRITE.
WriteOne(acc, s) ==
  With(sym_calc_value(acc[1], s), LAMBDA a :
    IF IsChoice(s) \/ s \notin a.write THEN <<a, acc[2]>> ELSE <<a, Append(acc[2], <<s, sym_get_string_value(a, s)>>)>>)
conf_write(x) ==
  With(Each(WriteOne, <<IF x.changes THEN x ELSE sym_clear_all_valid(x), <<>>>>, K.menus), LAMBDA p :
    <<[p[1] EXCEPT !.changes = FALSE], p[2]>>)

\* conf_write_defconfig: what differs from its default and can be changed.
IsDefault(x, s) ==
  \/ sym_get_string_value(x, s) = sym_get_string_default(x, s)
  \/ InChoice(s) /\ K.sym[s].type = "bool" /\ x.tri[s] = 2 /\ ~ K.sym[ChoiceOf(s)].optional
     /\ sym_choice_default(x, ChoiceOf(s))[2] = s
WriteOneMinimal(acc, s) ==
  With(sym_calc_value(acc[1], s), LAMBDA a :
    IF IsChoice(s) \/ s \notin a.write THEN <<a, acc[2]>>
    ELSE With([a EXCEPT !.write = @ \ {s}], LAMBDA b :
           IF ~ sym_is_changeable(b, s) \/ IsDefault(b, s) THEN <<b, acc[2]>>
           ELSE <<b, Append(acc[2], <<s, sym_get_string_value(b, s)>>)>>))
conf_write_defconfig(x) == Each(WriteOneMinimal, <<sym_clear_all_valid(x), <<>>>>, K.menus)[2]

\* conf_read_simple: forget the user's values, take those of the file.
Forget(x) == [x EXCEPT !.valid = {}, !.has = {s \in Names : IsChoice(s)}, !.utri = [s \in Names |-> 0],
                       !.unum = [s \in Names |-> Empty], !.usel = [s \in Names |-> ""]]
conf_set_sym_val(x, s, v) ==
  IF IsNum(s) THEN IF v = Empty THEN x ELSE [x EXCEPT !.unum[s] = v, !.has = @ \cup {s}]
  ELSE IF K.sym[s].type = "bool" /\ v = 1 THEN x
  ELSE [x EXCEPT !.utri[s] = v, !.has = @ \cup {s}]
ReadOne_first(x, line) == conf_set_sym_val(x, line[1], line[2])
ReadOne(x, line) ==
  LET s == line[1]
      cs == ChoiceOf(s)
      a == conf_set_sym_val(x, s, line[2])
      clash == a.utri[s] = 1 /\ a.utri[cs] = 2
  IN  IF ~ InChoice(s) THEN a
      ELSE [a EXCEPT !.has = IF clash THEN @ \ {cs} ELSE @, !.usel[cs] = IF a.utri[s] = 2 THEN s ELSE @,
                     !.utri[cs] = Or(@, a.utri[s])]
conf_read_simple(x, file) == Each(ReadOne, Forget(x), file)

\* conf_read: then calculate everything, and see whether the file says it.
Agrees(x, s) ==
  \/ IsChoice(s)
  \/ s \in x.has /\ s \in x.write /\ IF IsNum(s) THEN x.unum[s] = x.num[s] ELSE x.utri[s] = x.tri[s]
  \/ s \notin x.has /\ s \notin x.write
conf_read(x, file) ==
  With(CalcAll(sym_calc_value(conf_read_simple([x EXCEPT !.changes = FALSE], file), K.modules), K.order), LAMBDA a :
    LET unsaved == \E s \in Names : ~ Agrees(a, s)
        given == {s \in a.has : ~ InChoice(s)}
        hidden == {s \in given : ~ unsaved /\ a.vis[s] = 0}
    IN  With({s \in given : IsNum(s) /\ ~ sym_string_within_range(a, s, a.unum[s])}, LAMBDA outside :
          [a EXCEPT !.has = @ \ (outside \cup hidden), !.valid = @ \ outside, !.changes = unsaved \/ outside # {}]))

\* conf_set_all_new_symbols: mode no, mod, yes (0, 1, 2) or "default" (3).
AnswerChoice(x, s) ==
  IF s \in x.has \/ ~ IsChoice(s) THEN x ELSE set_all_choice_values(sym_calc_value(x, s), s)
conf_set_all_new_symbols(x, mode) ==
  LET new == {s \in Names : s \notin x.has /\ s \notin x.valid /\ ~ IsNum(s)}
      a == IF mode = 3 THEN x ELSE [x EXCEPT !.utri = [s \in Names |-> IF s \in new THEN mode ELSE x.utri[s]], !.has = @ \cup new]
      Need(b) == [b EXCEPT !.need = {s \in Names : InChoice(s) \/ (IsChoice(s) /\ s \notin b.has)}]
  IN  Each(AnswerChoice, With(sym_clear_all_valid(a), Need), K.order)

----------------------------------------------------------------------------
\* A session: everything is calculated before the user sees it (menu_is_visible).
Init ==
  /\ \E name \in DOMAIN Kconfigs : K = Kconfigs[name]
  /\ syms = Fresh
  /\ config = <<>> /\ steps = 0
Changed(p) == syms' = CalcAll(p, K.order) /\ steps' = steps + 1 /\ UNCHANGED <<K, config>>
Ready == syms.valid # {}
CanStep == Ready /\ steps < MaxSteps
Start == ~ Ready /\ syms' = CalcAll(sym_clear_all_valid(syms), K.order) /\ UNCHANGED <<K, config, steps>>

Tristates == {s \in Names : ~ IsNum(s)}
Set(s, v) == CanStep /\ Changed(sym_set_tristate_value(syms, s, v)[1])
Toggle(s) == CanStep /\ Changed(sym_toggle_tristate_value(syms, s))
SetNumber(s, v) == CanStep /\ Changed(sym_set_string_value(syms, s, v)[1])
Save == CanStep /\ \E p \in {conf_write(syms)} : syms' = p[1] /\ config' = p[2] /\ steps' = steps + 1 /\ K' = K
Load == CanStep /\ Changed(conf_read(syms, config))
SetAllNew(mode) == CanStep /\ Changed(conf_set_all_new_symbols(sym_clear_all_valid(syms), mode))

\* conf.c, oldconfig, the last thing a session does: check_conf asks for a
\* visible symbol without a value; the answer is the value shown or another
\* one that is accepted.  Of a choice that is y one visible value is asked for.
IsNew(s) ==
  /\ syms.vis[s] # 0 /\ s \notin syms.has
  /\ sym_is_changeable(syms, s) \/ (IsChoice(s) /\ syms.tri[s] = 2)
Answered(p) == \E q \in {p} : q[2] /\ syms' = CalcAll(q[1], K.order) /\ UNCHANGED <<K, config, steps>>
conf_sym(s) == \E v \in 0 .. 2 : Answered(sym_set_tristate_value(syms, s, v))
conf_string(s) == \E v \in Numbers \cup {syms.num[s]} : Answered(sym_set_string_value(syms, s, v))
conf_choice(s) == \E c \in ToSet(K.sym[s].members) : syms.vis[c] # 0 /\ Answered(sym_set_tristate_value(syms, c, 2))
conf(s) ==
  LET q == IF InChoice(s) THEN ChoiceOf(s) ELSE s
  IN  IF IsNum(s) THEN conf_string(s) ELSE IF IsChoice(q) /\ syms.tri[q] = 2 THEN conf_choice(q) ELSE conf_sym(s)
check_conf == steps = MaxSteps /\ \E s \in Names : IsNew(s) /\ conf(s)

Next ==
  \/ Start
  \/ \E s \in Tristates : Toggle(s) \/ \E v \in 0 .. 2 : Set(s, v)
  \/ \E s \in Names \ Tristates, v \in Numbers : SetNumber(s, v)
  \/ Save \/ Load
  \/ \E mode \in 0 .. 3 : SetAllNew(mode)
  \/ check_conf
Spec == Init /\ [][Next]_cvars

----------------------------------------------------------------------------
Values(x) == <<x.tri, x.num, x.sel, x.vis, x.write, x.modv>>

\* sym_calc_value gives every symbol the same value, visibility and WRITE flag
\* whichever symbol is asked for first: the values it finds in symbols not yet
\* calculated, left from before sym_clear_all_valid, never show.
OrderFree ==
  Ready => \A x \in {sym_clear_all_valid(syms)} : \A s \in Names :
             With(CalcAll(sym_calc_value(x, s), K.order), Values) = With(CalcAll(x, K.order), Values)

\* A value that sym_set_tristate_value or sym_set_string_value accepts is the
\* value the symbol then has.
SetReadsBack ==
  Ready =>
  /\ \A s \in Tristates, v \in 0 .. 2 :
       \A p \in {sym_set_tristate_value(syms, s, v)} : p[2] => sym_calc_value(p[1], s).tri[s] = v
  /\ \A s \in Names \ Tristates, v \in Numbers :
       \A p \in {sym_set_string_value(syms, s, v)} : \A q \in {sym_calc_value(p[1], s)} :
         p[2] /\ q.vis[s] # 0 => q.num[s] = v

\* A selected symbol is at least what its selectors ask for, a number is in its
\* range, and of a choice that is y exactly one value is y if any is visible.
Consistent ==
  Ready => \A s \in Names :
    /\ ~ IsNum(s) => syms.tri[s] >= syms.rev[s]
    /\ IsNum(s) /\ syms.num[s] # Empty => sym_string_within_range(syms, s, syms.num[s])
    /\ IsChoice(s) /\ syms.tri[s] = 2 => Cardinality({c \in ToSet(K.sym[s].members) : syms.tri[c] = 2}) = 1

\* Reading back the .config that conf_write wrote, in a new process, gives every
\* symbol its value again and leaves nothing to save.
RoundTrip ==
  Ready => \A file \in {conf_write(syms)[2]} : \A x \in {conf_read(Fresh, file)} : \A y \in {CalcAll(x, K.order)} :
    ~ x.changes /\ <<y.tri, y.num, y.sel>> = <<syms.tri, syms.num, syms.sel>>

\* The defconfig that conf_write_defconfig wrote is enough: conf --defconfig
\* makes the same configuration of it.
DefconfigEnough ==
  Ready => \A file \in {conf_write_defconfig(syms)} : \A x \in {conf_read(Fresh, file)} :
    \A y \in {conf_set_all_new_symbols(x, 3)} : \A z \in {CalcAll(y, K.order)} : <<z.tri, z.num>> = <<syms.tri, syms.num>>

Settled == {s \in syms.has : ~ IsChoice(s)}
AnswersKeptStep ==
  steps = MaxSteps /\ Ready =>
    Settled \subseteq Settled' /\ (Settled # Settled' \/ \E s \in Names : IsChoice(s) /\ s \in syms'.has \ syms.has)

\* oldconfig ends (the loop of conf.c:708-712): every answer gives a value to
\* a symbol that had none and takes none away but a choice's, which loses it only
\* to a value that became visible; so no symbol is asked for twice.
AnswersKept == [][AnswersKeptStep]_cvars

\* The values of a configuration depend on what was answered and on nothing else: not
\* on the order in which symbols are computed, nor on having been written to a file
\* and read back; and an answer stays given.
AnswersDecide ==
  [](OrderFree /\ SetReadsBack /\ Consistent /\ RoundTrip /\ DefconfigEnough) /\ AnswersKept
=============================================================================
