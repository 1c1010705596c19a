----------------------------- MODULE MCShumway -----------------------------
(* A host that opens a session, selects a memory, writes, reads, erases and closes, in any order. *)
EXTENDS ShumwayProps

R(act, arg, data) == [act |-> act, arg |-> arg, data |-> data]
MCRequests ==
  {R("SELECT_OPEN", NoArg, <<>>), R("SELECT_CLOSE", NoArg, <<>>), R("FULL_ERASE", NoArg, <<>>),
   R("MEM_SELECT", 2, <<>>), R("MEM_SELECT", 3, <<>>),
   R("ADDR", 1, <<>>), R("READ", 4, <<>>), R("READ", NoArg, <<>>), R("EMPTY", NoArg, <<>>),
   R("RESET", NoArg, <<>>),
   R("WRITE", NoArg, <<1, 2>>), R("WRITE", NoArg, <<2>>)}

BurstRequests ==
  {R("SELECT_OPEN", NoArg, <<>>), R("SELECT_CLOSE", NoArg, <<>>), R("FULL_ERASE", NoArg, <<>>),
   R("READ", 2, <<>>), R("WRITE", NoArg, <<1, 2>>)}
=============================================================================
