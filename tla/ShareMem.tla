------------------------------ MODULE ShareMem ------------------------------
(***************************************************************************)
(* The driver of Kernel/sharemem: the first mmap() allocates one page and  *)
(* maps it at buffer_addr in the kernel, and every mmap() inserts it into  *)
(* the caller.  buffer_addr and pages_ptr_array are global; the mutex is   *)
(* one of each opener, so the test of line 85 excludes nobody else.        *)
(*                                                                         *)
(* A process gets at most one area, one array and one page, which bear its *)
(* name; a pointer is the set of what it points to, {} for NULL.           *)
(***************************************************************************)

CONSTANTS
  Procs      \* the tasks, each of which opens; mmap() refuses any other

VARIABLES
  at,               \* where in mmap() each process is
  mutex,            \* mmap_mutex of each is held
  buffer_addr,      \* the area it is the address of
  pages_ptr_array,  \* the array
  content,          \* the page in each array
  vm_area,          \* of each process: the address and the array it maps
  mapped,           \* the page mapped in each area
  user,             \* the page inserted into each process
  written,          \* the page the last write() went to
  oops,             \* the kernel has followed a bad address
  met               \* history: two first mmap() at once

shareVars == <<at, mutex, buffer_addr, pages_ptr_array, content, vm_area, mapped,
               user, written, oops, met>>

NULL == {}

Init ==
  /\ at = [p \in Procs |-> "closed"] /\ mutex = [p \in Procs |-> FALSE]
  /\ buffer_addr = NULL /\ pages_ptr_array = NULL
  /\ content = [p \in Procs |-> NULL] /\ mapped = [p \in Procs |-> NULL]
  /\ vm_area = [p \in Procs |-> [addr |-> NULL, pages |-> NULL]]
  /\ user = [p \in Procs |-> NULL] /\ written = NULL
  /\ oops = FALSE /\ met = FALSE

Allocating(p) == at[p] \in {"area", "array", "page", "take", "map"}

\* What f has where the pointer points to
Through(pointer, f) == UNION {f[q] : q \in pointer}

\* The page at buffer_addr, and the one in the array
Kernel == Through(buffer_addr, mapped)
Shared == Through(pages_ptr_array, content)

Go(p, where) == at' = [at EXCEPT ![p] = where]
Hold(p, b) == mutex' = [mutex EXCEPT ![p] = b]

\* The description of the opener joins sharemem_procs; without memory for it
\* there is -ENOMEM.  misc_open() calls one at a time.
Open(p) ==
  /\ at[p] = "closed" /\ Go(p, "user")
  /\ UNCHANGED <<mutex, buffer_addr, pages_ptr_array, content, vm_area, mapped,
                 user, written, oops, met>>

\* Fault: the page of an earlier mmap() is not looked for.
Present_Not == FALSE
Present == buffer_addr # NULL

\* The message of line 87 already reads the buffer.
Mmap(p) ==
  /\ at[p] = "user" /\ ~mutex[p]
  /\ IF Present THEN Go(p, "insert") /\ UNCHANGED mutex
                ELSE Go(p, "area") /\ Hold(p, TRUE)
  /\ oops' = (Present /\ Kernel = NULL)
  /\ met' = (met \/ (~Present /\ \E q \in Procs : Allocating(q)))
  /\ UNCHANGED <<buffer_addr, pages_ptr_array, content, vm_area, mapped, user, written>>

\* __get_vm_area; when it fails the mutex stays locked, and the next call of
\* this process waits for it for good.
Area(p) ==
  /\ at[p] = "area"
  /\ \/ Go(p, "user") /\ UNCHANGED buffer_addr
     \/ Go(p, "array") /\ buffer_addr' = {p}
  /\ UNCHANGED <<mutex, pages_ptr_array, content, vm_area, mapped, user, written, oops, met>>

\* kzalloc of the array, whose result nobody looks at
NewArray(p) ==
  /\ at[p] = "array" /\ Go(p, "page")
  /\ pages_ptr_array' \in {NULL, {p}}
  /\ UNCHANGED <<mutex, buffer_addr, content, vm_area, mapped, user, written, oops, met>>

\* alloc_page, which may fail too, into the array
NewPage(p) ==
  /\ at[p] = "page" /\ Go(p, "take")
  /\ oops' = (pages_ptr_array = NULL)
  /\ \E page \in {NULL, {p}} :
       content' = [q \in Procs |-> IF q \in pages_ptr_array THEN page ELSE content[q]]
  /\ UNCHANGED <<mutex, buffer_addr, pages_ptr_array, vm_area, mapped, user, written, met>>

\* Lines 102 to 104 read both pointers again.
Take(p) ==
  /\ at[p] = "take" /\ Go(p, "map")
  /\ vm_area' = [vm_area EXCEPT ![p] = [addr |-> buffer_addr, pages |-> pages_ptr_array]]
  /\ UNCHANGED <<mutex, buffer_addr, pages_ptr_array, content, mapped, user, written, oops, met>>

\* map_vm_area, which fails for a NULL page and for an area that is mapped; the
\* mutex then stays locked.
MapKernel(p) ==
  LET addr == vm_area[p].addr
      page == Through(vm_area[p].pages, content)
  IN
  /\ at[p] = "map"
  /\ oops' = (vm_area[p].pages = NULL)
  /\ \/ Go(p, "user") /\ UNCHANGED <<mutex, mapped>>
     \/ /\ page # NULL /\ Through(addr, mapped) = NULL
        /\ mapped' = [a \in Procs |-> IF a \in addr THEN page ELSE mapped[a]]
        /\ Hold(p, FALSE) /\ Go(p, "insert")
  /\ UNCHANGED <<buffer_addr, pages_ptr_array, content, vm_area, user, written, met>>

\* MMAP_USER_SPACE: no array is an oops, no page an error; vm_insert_page may
\* fail too.
Insert(p) ==
  /\ at[p] = "insert" /\ Go(p, "user")
  /\ oops' = (pages_ptr_array = NULL)
  /\ \/ Shared # NULL /\ user' = [user EXCEPT ![p] = Shared]
     \/ UNCHANGED user
  /\ UNCHANGED <<mutex, buffer_addr, pages_ptr_array, content, vm_area, mapped, written, met>>

\* read() copies a name, and its message reads the buffer.
Read(p) ==
  /\ at[p] = "user"
  /\ oops' = (Present /\ Kernel = NULL)
  /\ UNCHANGED <<at, mutex, buffer_addr, pages_ptr_array, content, vm_area, mapped,
                 user, written, met>>

\* write() under the mutex of the process
Write(p) ==
  /\ at[p] = "user" /\ buffer_addr # NULL /\ ~mutex[p]
  /\ oops' = (Kernel = NULL)
  /\ written' = Kernel
  /\ UNCHANGED <<at, mutex, buffer_addr, pages_ptr_array, content, vm_area, mapped, user, met>>

\* Nothing is said of a kernel that has followed a bad address.
Next ==
  /\ ~oops
  /\ \E p \in Procs :
       \/ Open(p) \/ Mmap(p) \/ Area(p) \/ NewArray(p) \/ NewPage(p) \/ Take(p)
       \/ MapKernel(p) \/ Insert(p) \/ Read(p) \/ Write(p)

-----------------------------------------------------------------------------
(* Properties *)

\* Unless two processes have passed the test of line 85 at once, each under the
\* mutex of its own opening: whatever fails on the way, the processes that have
\* the memory have the page the kernel has, writes go to it, and the kernel
\* follows a bad address only where none is mapped at buffer_addr, which line 97
\* sets before lines 99, 100 and 108 may fail or have come so far.
OnePage ==
  ~met =>
    /\ \A p \in Procs : user[p] \in {Kernel, NULL}
    /\ written \in {Kernel, NULL}
    /\ oops => buffer_addr # NULL /\ Kernel = NULL
=============================================================================
