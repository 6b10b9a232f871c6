------------------------------- MODULE KMenu -------------------------------
(* tools/kconfig/menu.c: the parser builds the tree of menu entries with       *)
(* menu_add_entry, menu_add_menu and menu_end_menu; menu_finalize then gives   *)
(* every entry the dependencies of what encloses it, makes submenus of entries *)
(* that depend on the symbol before them and flattens what has no prompt, all  *)
(* by changing the pointers list, next and parent.  An entry is its number,    *)
(* 0 is NULL and Root the root menu; a symbol is named by its entry.  A        *)
(* dependency is a conjunction of disjunctions of symbols: the set of the sets *)
(* of symbols, {} being y (KExpr has the expressions themselves).              *)
EXTENDS Integers, Sequences, FiniteSets, FiniteSetsExt

CONSTANTS MaxEntries

VARIABLES kind,           \* entry -> "config", "hidden", "if", "menu", "choice"
          own,            \* entry -> its own dependency
          within,         \* entry -> the menu, if or choice it was written in
          m,              \* the pointers and dependencies: list, next, parent, dep
          current_menu, last_entry, done
mvars == <<kind, own, within, m, current_menu, last_entry, done>>

Root == MaxEntries + 1
Entries == DOMAIN kind
IsSym(e) == e # Root /\ kind[e] \in {"config", "hidden", "choice"}
HasPrompt(e) == e = Root \/ kind[e] \in {"config", "menu", "choice"}
IsChoice(e) == e # Root /\ kind[e] = "choice"

----------------------------------------------------------------------------
expr_contains_symbol(dep, s) == \E c \in dep : s \in c
expr_depends_symbol(dep, s) == {s} \in dep
\* expr_eliminate_eq takes away what dep and basedep have in common; basedep is
\* then y if dep has all of it.
IsSuperset(dep, basedep) == basedep \subseteq dep

\* parent's children get its dependency; a choice is itself the dependency.
Propagate(x, p) ==
  LET parentdep == IF IsChoice(p) THEN {{p}} ELSE x.dep[p]
      children == {e \in Entries : x.parent[e] = p}
  IN  [x EXCEPT !.dep = [e \in DOMAIN x.dep |-> IF e \in children THEN parentdep \cup x.dep[e] ELSE x.dep[e]]]

RECURSIVE menu_finalize(_, _), FinalizeChildren(_, _), Submenu(_, _, _, _), Flatten(_, _, _), LastOf(_, _), Adopt(_, _, _)
FinalizeChildren(x, e) == IF e = 0 THEN x ELSE LET y == menu_finalize(x, e) IN FinalizeChildren(y, y.next[e])

\* Automatic submenu of the symbol p: <<x, the last entry taken>>.
Belongs(x, p, e) ==
  /\ expr_contains_symbol(x.dep[e], p)
  /\ expr_depends_symbol(x.dep[e], p) \/ IsSuperset(x.dep[e], IF HasPrompt(p) THEN x.dep[p] ELSE {})
Submenu(x, p, e, last) ==
  IF e = 0 \/ ~ Belongs(x, p, e) THEN <<x, last>>
  ELSE LET y == [menu_finalize(x, e) EXCEPT !.parent[e] = p] IN Submenu(y, p, y.next[e], e)
Splice(x, p, last) ==
  IF last = 0 THEN x ELSE [x EXCEPT !.list[p] = x.next[p], !.next[p] = x.next[last], !.next[last] = 0]

LastOf(x, e) == IF x.next[e] = 0 THEN e ELSE LastOf(x, x.next[e])
Adopt(x, e, p) == IF e = 0 THEN x ELSE Adopt([x EXCEPT !.parent[e] = p], x.next[e], p)
\* The entries of what has no prompt move up after it.
Flatten(x, p, e) ==
  IF e = 0 THEN x
  ELSE LET y == IF x.list[e] = 0 \/ HasPrompt(e) THEN x
                ELSE [Adopt(x, x.list[e], p) EXCEPT !.next[LastOf(x, x.list[e])] = x.next[e], !.next[e] = x.list[e], !.list[e] = 0]
       IN  Flatten(y, p, y.next[e])

menu_finalize(x, p) ==
  LET sub == Submenu(x, p, x.next[p], 0)
      y == IF x.list[p] # 0 THEN FinalizeChildren(Propagate(x, p), x.list[p])
           ELSE IF IsSym(p) THEN Splice(sub[1], p, sub[2]) ELSE x
  IN  Flatten(y, p, y.list[p])

----------------------------------------------------------------------------
Init ==
  /\ kind = <<>> /\ own = <<>> /\ within = <<>> /\ done = FALSE
  /\ m = [list |-> [e \in 1 .. Root |-> 0], next |-> [e \in 1 .. Root |-> 0], parent |-> [e \in 1 .. Root |-> 0], dep |-> [e \in 1 .. Root |-> {}]]
  /\ current_menu = Root /\ last_entry = <<"list", Root>>

Deps == {{}} \cup {{{s}} : s \in {e \in Entries : kind[e] \in {"config", "hidden"}}}
             \cup {{{s, t}} : s, t \in {e \in Entries : kind[e] = "config"}}
menu_add_entry(k, dep) ==
  LET e == Len(kind) + 1
  IN  /\ e <= MaxEntries /\ ~ done
      /\ IsChoice(current_menu) => k = "config"
      /\ kind' = Append(kind, k) /\ own' = Append(own, dep) /\ within' = Append(within, current_menu)
      /\ m' = IF last_entry[1] = "list" THEN [m EXCEPT !.list[last_entry[2]] = e, !.parent[e] = current_menu, !.dep[e] = dep]
              ELSE [m EXCEPT !.next[last_entry[2]] = e, !.parent[e] = current_menu, !.dep[e] = dep]
      /\ IF k \in {"if", "menu", "choice"} THEN current_menu' = e /\ last_entry' = <<"list", e>>  \* menu_add_menu
         ELSE current_menu' = current_menu /\ last_entry' = <<"next", e>>
      /\ UNCHANGED done
menu_end_menu ==
  /\ current_menu # Root /\ ~ done
  /\ last_entry' = <<"next", current_menu>> /\ current_menu' = m.parent[current_menu]
  /\ UNCHANGED <<kind, own, within, m, done>>
Finalize ==
  /\ ~ done /\ current_menu = Root /\ kind # <<>>
  /\ done' = TRUE /\ m' = menu_finalize(m, Root)
  /\ UNCHANGED <<kind, own, within, current_menu, last_entry>>
Next ==
  \/ \E k \in {"config", "hidden", "if", "menu", "choice"} : \E d \in Deps : menu_add_entry(k, d)
  \/ menu_end_menu \/ Finalize
Spec == Init /\ [][Next]_mvars

----------------------------------------------------------------------------
\* Which entries are shown when the symbols in on are not n.
Holds(dep, on) == \A c \in dep : c \cap on # {}
RECURSIVE menu_is_visible(_, _), Preorder(_)
Children(e) == {c \in Entries : m.parent[c] = e}
menu_is_visible(e, on) ==
  /\ HasPrompt(e)
  /\ Holds(m.dep[e], on) \/ (IsSym(e) /\ e \in on /\ \E c \in Children(e) : menu_is_visible(c, on))
Preorder(e) == IF e = 0 THEN <<>> ELSE <<e>> \o Preorder(m.list[e]) \o Preorder(m.next[e])
Above(e) == LET up[n \in 0 .. MaxEntries] == IF n = 0 THEN {e} ELSE up[n - 1] \cup {within[x] : x \in up[n - 1] \ {Root}}
            IN  up[MaxEntries] \ {e, Root}
\* The symbols that are not n.  A choice that can be seen is one (its rev_dep);
\* nothing is selected against its dependencies (sym_warn_unmet_dep).
Settings ==
  {on \in SUBSET {e \in Entries : IsSym(e)} :
     \A s \in Entries : IsSym(s) => (s \in on => Holds(m.dep[s], on)) /\ (IsChoice(s) /\ Holds(m.dep[s], on) => s \in on)}

\* menu_finalize loses no entry, shows none twice and keeps the order of the
\* Kconfig, and parent is where list and next say.
TreeKept ==
  done => /\ Preorder(m.list[Root]) = [e \in Entries |-> e]
          /\ \A e \in Entries : e \in {m.list[m.parent[e]]} \cup {m.next[c] : c \in Children(m.parent[e])}

\* An entry is available exactly if its own dependency and those of everything
\* it was written in hold.
DependsOnAll ==
  done => \A on \in Settings : \A e \in Entries :
    Holds(m.dep[e], on) <=> \A a \in Above(e) \cup {e} : Holds(own[a], on)

\* Everything that is available and has a prompt can be reached: the entries it
\* was put below are shown, even where their own prompt is not.
Reachable ==
  done => \A on \in Settings : \A e \in Entries :
    HasPrompt(e) /\ Holds(m.dep[e], on) /\ m.parent[e] # Root => menu_is_visible(m.parent[e], on)
=============================================================================
