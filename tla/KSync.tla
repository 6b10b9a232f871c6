------------------------------- MODULE KSync -------------------------------
(* How a configuration reaches the object files.  conf_write replaces .config *)
(* (confdata.c:824); conf --syncconfig then runs conf_write_autoconf, which   *)
(* touches include/config/*.h for every symbol that changed and replaces      *)
(* autoconf.h and, last, auto.conf; fixdep (tools/fixdep/fixdep.c) has made   *)
(* every object depend on the include/config/*.h of the symbols its sources   *)
(* mention instead of on autoconf.h, and make builds what is older.  A conf   *)
(* process may be killed between any two changes of the file system, and make *)
(* be run then: the Makefile includes auto.conf if it is there and has no     *)
(* rule for it, as kbuild has.                                                *)
EXTENDS Integers, Sequences, FiniteSets, SequencesExt

CONSTANTS Symbols,   \* names of symbols, without CONFIG_
          Values,    \* symbol -> the values it may be given
          Includes,  \* object -> what gcc -MMD lists: the source, then headers
          Words,     \* file -> the <<symbol, suffix>> of the CONFIG_ words in it
          Flags,     \* the symbols that the Makefile makes compiler flags of
          MaxRuns    \* how many conf processes run

VARIABLES known,     \* the symbols the Kconfig has
          config, old, tmp,    \* .config, .config.old, .config.<pid>.tmp
          auto, header,        \* auto.conf and autoconf.h
          built,     \* object -> the words defined and the flags when it was compiled,
                     \*   and whether autoconf.h was not yet auto.conf's
          dirty,     \* objects with a dependency touched since
          pc, mem, overwrite, todo, runs
files == <<config, old, tmp, auto, header>>
proc == <<pc, mem, overwrite, todo>>
svars == <<known, files, built, dirty, proc, runs>>

None == <<>>                      \* no such file
NotBuilt == [words |-> {None}]
NoHeader == {None}
Absent == -1                      \* not written: not SYMBOL_WRITE, or unknown
Objects == DOMAIN Includes
Configs == {v \in [Symbols -> {Absent, 0, 1, 2}] : \A s \in Symbols : v[s] \in IF s \in known THEN Values[s] ELSE {Absent}}

----------------------------------------------------------------------------
\* fixdep: the symbols an object is made to depend on.
is_ignored_file(f) == f = "autoconf.h"
parse_config_file(f) == {w[1] : w \in Words[f]}  \* a suffix _MODULE is cut off
parse_dep_file(o) == UNION {parse_config_file(f) : f \in {g \in ToSet(Includes[o]) : ~ is_ignored_file(g)}}

\* What is printed into auto.conf (unset symbols are skipped) and autoconf.h.
kconfig_print_symbol(v) == [s \in Symbols |-> IF v[s] \in {1, 2} THEN v[s] ELSE Absent]
header_print_symbol(v) == {<<s, "">> : s \in {x \in Symbols : v[x] = 2}} \cup {<<s, "_MODULE">> : s \in {x \in Symbols : v[x] = 1}}

\* conf_touch_deps: old value from auto.conf, new one from memory; a symbol that
\* the Kconfig no longer has is touched by conf_read_simple.
AutoOf(s) == IF auto = None THEN Absent ELSE auto[s]
Changed(s) ==
  IF mem[s] # Absent THEN IF AutoOf(s) # Absent THEN mem[s] # AutoOf(s) ELSE mem[s] # 0
  ELSE AutoOf(s) # Absent

\* The compiler: which of the words in the object's sources are defined, and the
\* flags that make has from auto.conf, which no dependency stands for.
Defined(o) == header \cap UNION {Words[f] : f \in {g \in ToSet(Includes[o]) : g # "autoconf.h"}}
CFLAGS_BUILD == [s \in Flags |-> AutoOf(s)]
Compile(o) ==
  [words |-> Defined(o), flags |-> CFLAGS_BUILD,
   early |-> header # header_print_symbol([s \in Symbols |-> AutoOf(s)])]

----------------------------------------------------------------------------
NoConfig == [s \in Symbols |-> Absent]
Init ==
  /\ known = Symbols
  /\ config = None /\ old = None /\ tmp = None /\ auto = None /\ header = NoHeader
  /\ built = [o \in Objects |-> NotBuilt] /\ dirty = {}
  /\ pc = "unsynced" /\ mem = NoConfig /\ overwrite = FALSE /\ todo = {} /\ runs = 0

Idle == pc \in {"unsynced", "synced", "killed"}

\* A conf process starts: with a new configuration (menuconfig, defconfig), or
\* with the one in .config (syncconfig); without .config it asks for one.
StartConf ==
  /\ Idle /\ runs < MaxRuns
  /\ mem' \in Configs
  /\ overwrite' = FALSE /\ pc' = "write" /\ runs' = runs + 1
  /\ UNCHANGED <<known, files, built, dirty, todo>>
StartSync ==
  /\ Idle /\ pc # "synced"
  /\ mem' \in IF config = None THEN Configs ELSE {[s \in Symbols |-> IF s \in known THEN config[s] ELSE Absent]}
  /\ overwrite' = TRUE /\ pc' = "write"
  /\ UNCHANGED <<known, files, built, dirty, todo, runs>>

\* conf_write: a new file, which replaces .config unless it is the same.
conf_write_tmp == pc = "write" /\ tmp' = mem /\ pc' = "compare" /\ UNCHANGED <<known, config, old, auto, header, built, dirty, mem, overwrite, todo, runs>>
conf_write_old ==
  /\ pc = "compare"
  /\ IF config = tmp THEN tmp' = None /\ pc' = "autoconf" /\ UNCHANGED <<config, old>>
     ELSE /\ old' = IF config = None THEN old ELSE config
          /\ config' = None /\ pc' = "rename" /\ tmp' = tmp
  /\ UNCHANGED <<known, auto, header, built, dirty, mem, overwrite, todo, runs>>
conf_write_name == pc = "rename" /\ config' = tmp /\ tmp' = None /\ pc' = "autoconf" /\ UNCHANGED <<known, old, auto, header, built, dirty, mem, overwrite, todo, runs>>

\* conf_write_autoconf, one change of the file system a step.
conf_touch_deps_first ==
  /\ pc = "autoconf"
  /\ IF ~ overwrite /\ auto # None THEN pc' = "unsynced" /\ UNCHANGED <<todo, auto>>
     ELSE pc' = "touch" /\ todo' = {s \in Symbols : Changed(s)} /\ auto' = kconfig_print_symbol(mem)
  /\ UNCHANGED <<known, config, old, tmp, header, built, dirty, mem, overwrite, runs>>
conf_touch_deps ==
  /\ pc = "autoconf"
  /\ IF ~ overwrite /\ auto # None THEN pc' = "unsynced" /\ todo' = todo
     ELSE pc' = "touch" /\ todo' = {s \in Symbols : Changed(s)}
  /\ UNCHANGED <<known, files, built, dirty, mem, overwrite, runs>>
conf_touch_dep(s) ==
  /\ pc = "touch" /\ s \in todo /\ todo' = todo \ {s}
  /\ dirty' = dirty \cup {o \in Objects : built[o] # NotBuilt /\ s \in parse_dep_file(o)}
  /\ UNCHANGED <<known, files, built, pc, mem, overwrite, runs>>
conf_write_header ==
  /\ pc = "touch" /\ todo = {} /\ header' = header_print_symbol(mem) /\ pc' = "last"
  /\ UNCHANGED <<known, config, old, tmp, auto, built, dirty, mem, overwrite, todo, runs>>
conf_write_auto ==
  /\ pc = "last"
  /\ auto' = kconfig_print_symbol(mem) /\ pc' = IF overwrite THEN "synced" ELSE "unsynced"
  /\ UNCHANGED <<known, config, old, tmp, header, built, dirty, mem, overwrite, todo, runs>>

\* The process is killed; its temporary file has a name of its own and is left.
Killed ==
  /\ ~ Idle /\ pc' = "killed" /\ tmp' = None /\ todo' = {}
  /\ UNCHANGED <<known, config, old, auto, header, built, dirty, mem, overwrite, runs>>

\* The Kconfig loses a symbol, with the sources that mention it left behind.
EditKconfig(s) ==
  /\ Idle /\ known = Symbols /\ known' = known \ {s} /\ pc' = "unsynced"
  /\ UNCHANGED <<files, built, dirty, mem, overwrite, todo, runs>>

\* make compiles an object, which also runs fixdep on its dependencies. Without
\* autoconf.h the compiler fails; that the last sync ended is not asked.
Make(o) ==
  /\ Idle /\ header # NoHeader /\ (built[o] = NotBuilt \/ o \in dirty)
  /\ built' = [built EXCEPT ![o] = Compile(o)] /\ dirty' = dirty \ {o}
  /\ UNCHANGED <<known, files, proc, runs>>

Next ==
  \/ StartConf \/ StartSync \/ conf_write_tmp \/ conf_write_old \/ conf_write_name
  \/ conf_touch_deps \/ conf_write_header \/ conf_write_auto \/ Killed
  \/ \E s \in Symbols : conf_touch_dep(s) \/ EditKconfig(s)
  \/ \E o \in Objects : Make(o)
Spec == Init /\ [][Next]_svars

----------------------------------------------------------------------------
\* After a sync that ended, an object that make leaves alone tests the symbols that
\* compiling it now would, whatever conf was killed before: auto.conf is replaced
\* last, so an interrupted sync touches again what it had found changed
\* (confdata.c:1092-1095). Not so for an object that make compiled between the two,
\* when autoconf.h was new and auto.conf was not: if the symbol is then set back,
\* nothing is touched. And not for the flags, which fixdep is not told of (config.mk
\* calls it with "unused" for the command).
BuildsCurrent ==
  pc = "synced" =>
    \A o \in Objects : built[o] = NotBuilt \/ o \in dirty \/ built[o].early \/ built[o].words = Defined(o)

\* After a sync that ended, autoconf.h and auto.conf say what .config says.
SyncedAlike == pc = "synced" => config # None /\ header = header_print_symbol(config) /\ auto = kconfig_print_symbol(config)

ConfigKeptStep ==
  config # None => config' # None \/ old' = config

\* A saved configuration is never lost: a step that takes .config away (the
\* first rename of conf_write) leaves that very configuration in .config.old.
ConfigKept == [][ConfigKeptStep]_svars

RebuildsOnlyUsersStep ==
  \A o \in Objects : o \in dirty' \ dirty =>
    \E f \in ToSet(Includes[o]) \ {"autoconf.h"} : \E w \in Words[f] : mem[w[1]] # AutoOf(w[1])

\* An object is compiled again only if a symbol its sources mention has another
\* value in the new configuration than in one since its last compilation.
RebuildsOnlyUsers == [][RebuildsOnlyUsersStep]_svars

\* The symbols that the objects test are those of .config after a sync that ended, with
\* no more compiled than had to be, although conf may stop between any two of its
\* writes; compiler flags, and objects made while conf was stopped, are excepted.
BuildInStep == [](BuildsCurrent /\ SyncedAlike) /\ ConfigKept /\ RebuildsOnlyUsers
=============================================================================
