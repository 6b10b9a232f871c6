------------------------------ MODULE UserMem ------------------------------
(* The address space of a user-mode guest: src/user/memory.c keeps a list of   *)
(* areas beside the host's mmap, src/user/loader.c maps the program and the    *)
(* stack, src/user/syscall.c grows the heap (brk).  Addresses are counted in   *)
(* units of which PAGE make a page; data is what the host's memory holds, a    *)
(* unit of the program file being its offset.  A failed assert ends the        *)
(* process (dead).                                                             *)
EXTENDS Integers, Sequences, FiniteSets, SequencesExt

CONSTANTS PAGE,
          DYN,       \* where areas without a wanted address begin (0x80000000)
          KERNEL,    \* the end of user space (0xc0000000)
          TOP,       \* bound: the end of what is modelled above the kernel's page
          STACK,     \* the size of the stack
          Segments,  \* the program: the PT_LOAD headers, in order
          MaxOps     \* how many system calls

VARIABLES vmas,      \* vma_list, in order
          data,      \* unit -> Unmapped or its content
          brk, brk_page, program_brk,
          loaded,    \* how many segments are loaded; one more with the stack
          ops, dead, remap
uvars == <<vmas, data, brk, brk_page, program_brk, loaded, ops, dead, remap>>

Unmapped == -2
Zero == -1
Units == 0 .. TOP - 1
ROUNDUP(a) == ((a + PAGE - 1) \div PAGE) * PAGE
Max2(a, b) == IF a > b THEN a ELSE b
Area(a, n) == a .. a + n - 1

\* The area after which [addr, addr + length) fits, 0 if none.
vma_list_new_fix_area(l, addr, length) ==
  LET overlap == \E i \in DOMAIN l : ~ (addr + length <= l[i].addr \/ addr >= l[i].addr + l[i].length)
      fits == {i \in 1 .. Len(l) - 1 : l[i].addr < addr /\ addr < l[i + 1].addr}
  IN  IF overlap \/ fits = {} THEN 0 ELSE CHOOSE i \in fits : TRUE
\* What lies right of the last area is the head of the list, at 0: the difference
\* wraps around, so that there is always room after the last area, and the assert
\* behind the loop is never reached.
right_minus(l, i, a, length) == i = Len(l) \/ l[i + 1].addr - a >= length
vma_list_new_dyn_area(l, length) ==
  LET fits == {i \in DOMAIN l : l[i].addr >= DYN /\ right_minus(l, i, l[i].addr + l[i].length, length)}
  IN  CHOOSE i \in fits : \A j \in fits : i <= j
vma_list_find_fix_area(l, addr, length) == SelectInSeq(l, LAMBDA v : v.addr = addr /\ v.length = length)
vma_list_add_after(l, left, v) == InsertAt(l, left + 1, v)

\* x: the state a call threads: vmas, data, dead, ret.
user_mmap(x, fixed, addr, len, fill) ==
  LET length == ROUNDUP(len)
      left == IF fixed THEN vma_list_new_fix_area(x.vmas, addr, length) ELSE vma_list_new_dyn_area(x.vmas, length)
      a == IF fixed THEN addr ELSE x.vmas[left].addr + x.vmas[left].length
  IN  IF left = 0 THEN [x EXCEPT !.dead = TRUE]
      ELSE [x EXCEPT !.vmas = vma_list_add_after(@, left, [addr |-> a, length |-> length]),
                     !.data = [u \in Units |-> IF u \in Area(a, length) THEN fill[u - a] ELSE x.data[u]], !.ret = a]
Anonymous == [i \in Units |-> Zero]
user_munmap_list(x, addr, length) ==
  LET i == vma_list_find_fix_area(x.vmas, addr, length)
  IN  IF i = 0 THEN [x EXCEPT !.dead = TRUE] ELSE [x EXCEPT !.vmas = RemoveAt(@, i)]
user_munmap(x, addr, length) ==
  LET i == vma_list_find_fix_area(x.vmas, addr, length)
  IN  IF i = 0 THEN [x EXCEPT !.dead = TRUE]
      ELSE [x EXCEPT !.vmas = RemoveAt(@, i), !.data = [u \in Units |-> IF u \in Area(addr, length) THEN Unmapped ELSE x.data[u]]]
Copy(x, to, from, n) == [x EXCEPT !.data = [u \in Units |-> IF u \in Area(to, n) THEN x.data[u - to + from] ELSE x.data[u]]]
user_mremap(x, old, osize, nsize) ==
  LET i == vma_list_find_fix_area(x.vmas, old, osize)
      new == ROUNDUP(nsize)
      y == user_mmap(x, FALSE, 0, new, Anonymous)
  IN  IF i = 0 THEN [x EXCEPT !.dead = TRUE]
      ELSE IF right_minus(x.vmas, i, old, new)
      THEN [x EXCEPT !.vmas[i].length = new, !.ret = old,
                     !.data = [u \in Units |-> IF u \in Area(old, new) \ Area(old, osize) THEN Zero
                                               ELSE IF u \in Area(old, osize) \ Area(old, new) THEN Unmapped ELSE x.data[u]]]
      ELSE IF y.dead THEN y ELSE user_munmap(Copy(y, y.ret, old, osize), old, osize)

----------------------------------------------------------------------------
Here == [vmas |-> vmas, data |-> data, dead |-> dead, ret |-> 0]
Bound(x) == \A i \in DOMAIN x.vmas : x.vmas[i].addr + x.vmas[i].length <= TOP
Take(x) == Bound(x) /\ vmas' = x.vmas /\ data' = x.data /\ dead' = x.dead
Ready == loaded = Len(Segments) + 1 /\ ~ dead
init_mem == <<[addr |-> 0, length |-> 0], [addr |-> DYN, length |-> 0], [addr |-> KERNEL, length |-> PAGE]>>
Init ==
  /\ vmas = init_mem /\ data = [u \in Units |-> Unmapped]
  /\ brk = 0 /\ brk_page = 0 /\ program_brk = 0 /\ loaded = 0 /\ ops = 0 /\ dead = FALSE /\ remap = <<>>

\* One program header of load_elf.  Of the last page of a file mapping the host
\* gives what is in the file; memset clears what follows filesz in it.
Fill(s) == [i \in Units |-> s.offset + i]
Memset(x, a, n) == [x EXCEPT !.data = [u \in Units |-> IF u \in Area(a, n) THEN Zero ELSE x.data[u]]]
LoadSegment(x, ph) ==
  LET pad == ph.vaddr % PAGE
      s == [vaddr |-> ph.vaddr - pad, offset |-> ph.offset - pad, filesz |-> ph.filesz + pad, memsz |-> ph.memsz + pad]
      a == IF s.filesz = 0 THEN x ELSE user_mmap(x, TRUE, s.vaddr, s.filesz, Fill(s))
      b == Memset(a, s.vaddr + s.filesz, PAGE - (s.filesz % PAGE))
      more == s.memsz - ROUNDUP(s.filesz)
  IN  IF ~ ph.write \/ a.dead THEN a
      ELSE IF more <= 0 THEN b ELSE user_mmap(b, TRUE, s.vaddr + ROUNDUP(s.filesz), more, Anonymous)
load_elf ==
  /\ loaded < Len(Segments) /\ ~ dead
  /\ LET ph == Segments[loaded + 1] IN Take(LoadSegment(Here, ph)) /\ brk' = Max2(brk, ph.vaddr + ph.memsz)
  /\ loaded' = loaded + 1
  /\ UNCHANGED <<brk_page, program_brk, ops, remap>>
init_stack ==
  /\ loaded = Len(Segments) /\ ~ dead /\ loaded' = loaded + 1
  /\ brk_page' = ROUNDUP(brk) /\ program_brk' = brk
  /\ Take(user_mmap(Here, TRUE, KERNEL - STACK, STACK, Anonymous))
  /\ UNCHANGED <<brk, ops, remap>>

\* host_syscall
Op == Ready /\ ops < MaxOps /\ ops' = ops + 1 /\ UNCHANGED <<loaded, program_brk>>
USER_SYS_brk(new) ==
  /\ Op /\ new > 0
  /\ LET size == ROUNDUP(new - brk_page + 1)
         x == IF new >= brk_page THEN user_mmap(Here, TRUE, brk_page, size, Anonymous) ELSE Here
     IN  Take(x) /\ IF x.dead THEN UNCHANGED <<brk, brk_page>>
                    ELSE brk' = new /\ brk_page' = IF new >= brk_page THEN brk_page + size ELSE brk_page
  /\ remap' = <<>>
USER_SYS_mmap(n) == Op /\ Take(user_mmap(Here, FALSE, 0, n, Anonymous)) /\ remap' = <<>> /\ UNCHANGED <<brk, brk_page>>
USER_SYS_munmap(a, n) == Op /\ Take(user_munmap(Here, a, n)) /\ remap' = <<>> /\ UNCHANGED <<brk, brk_page>>
USER_SYS_mremap(a, n, new) ==
  /\ Op /\ LET x == user_mremap(Here, a, n, new)
           IN  Take(x) /\ remap' = IF x.dead THEN <<>> ELSE <<a, x.ret, IF n < new THEN n ELSE new>>
  /\ UNCHANGED <<brk, brk_page>>
\* The guest stores something of its own.
vaddr_write(u) ==
  /\ Op /\ data[u] = Zero /\ data' = [data EXCEPT ![u] = 1000 + ops] /\ remap' = <<>>
  /\ UNCHANGED <<vmas, brk, brk_page, dead>>

Dynamic == {i \in DOMAIN vmas : DYN <= vmas[i].addr /\ vmas[i].addr \notin {KERNEL - STACK, KERNEL} /\ vmas[i].length > 0}
Next ==
  \/ load_elf \/ init_stack
  \/ \E n \in 1 .. 2 * PAGE : USER_SYS_mmap(n)
  \/ \E n \in program_brk .. program_brk + 2 * PAGE : USER_SYS_brk(n)
  \/ \E i \in Dynamic : \/ \E n \in {vmas[i].length, vmas[i].length - 1} : USER_SYS_munmap(vmas[i].addr, n)
                        \/ \E new \in {1, PAGE + 1, 3 * PAGE} : USER_SYS_mremap(vmas[i].addr, vmas[i].length, new)
                        \/ vaddr_write(vmas[i].addr)
Spec == Init /\ [][Next]_uvars

----------------------------------------------------------------------------
\* The list is sorted and its areas are disjoint, so that the free space
\* vma_list_new_dyn_area computes without a sign is what lies between two areas.
ListSorted == \A i \in 1 .. Len(vmas) - 1 : vmas[i].addr + vmas[i].length <= vmas[i + 1].addr

\* The list and the host agree on what is mapped, page for page: below the kernel's
\* addresses and, when the space from DYN is used up, above them.
HostAgrees ==
  {u \in Units : data[u] # Unmapped} =
    UNION {Area(vmas[i].addr, vmas[i].length) : i \in {j \in DOMAIN vmas : vmas[j].addr # KERNEL}}

\* After load_elf the guest sees every segment as the ELF file defines it: the
\* bytes of the file and then zeros up to memsz.
LoadedAsElf ==
  Ready /\ ops = 0 => \A k \in DOMAIN Segments : \A i \in 0 .. Segments[k].memsz - 1 :
    data[Segments[k].vaddr + i] = IF i < Segments[k].filesz THEN Segments[k].offset + i ELSE Zero

\* Whatever brk answered, the heap up to there is mapped.
HeapMapped == Ready => \A u \in program_brk .. brk - 1 : data[u] # Unmapped

RemapKeepsStep ==
  remap' # <<>> =>
    /\ \A i \in 0 .. remap'[3] - 1 : data'[remap'[2] + i] = data[remap'[1] + i]
    /\ \A i \in DOMAIN vmas : vmas[i].addr # remap'[1] => \A u \in Area(vmas[i].addr, vmas[i].length) : data'[u] = data[u]

\* mremap keeps what the guest had stored, whether the area grew where it was or
\* moved, and touches no other area.
RemapKeeps == [][RemapKeepsStep]_uvars

\* The areas that user mode keeps of a program are the mappings of the host, the
\* segments and the heap in them have their contents, and mremap keeps these.
UserAreasSound == [](ListSorted /\ HostAgrees /\ LoadedAsElf /\ HeapMapped) /\ RemapKeeps
=============================================================================
