----------------------------- MODULE MemPoolMC ------------------------------
(* Sequences of calls for MemPool. *)
EXTENDS MemPool

MCPrograms ==
  { <<"Initialize", "Alloc", "FREE", "Alloc", "Alloc", "Alloc", "FREE">>,
    <<"Initialize", "Alloc", "Alloc", "Alloc", "FREE", "Realloc", "Pop">>,
    <<"Initialize", "Alloc", "Alloc", "Alloc", "Realloc", "FREE", "FREE">>,
    <<"Initialize", "Alloc", "Realloc", "Realloc", "Realloc", "Alloc">>,
    <<"Initialize", "Alloc", "Push", "Alloc", "Realloc", "Realloc", "Pop", "Alloc">>,
    <<"Initialize", "Alloc", "Push", "Alloc", "Push", "Alloc", "Pop", "FREE", "Pop", "Alloc">>,
    <<"Initialize", "Initialize", "Alloc", "Alloc", "Push", "Realloc", "Delete", "Alloc">>,
    <<"Initialize", "Push", "Alloc", "Delete", "Initialize", "Push", "Initialize", "Alloc", "Pop">> }
=============================================================================
