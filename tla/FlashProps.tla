----------------------------- MODULE FlashProps -----------------------------
(***************************************************************************)
(* What the flash driver promises to a client that keeps its rules.        *)
(***************************************************************************)
EXTENDS Flash

(* Between two methods the application can be read, unless a command was lost: every way through
   write() and the page operations enables the section again after the hardware has finished, which
   ignores the command before. *)
ReadableBetweenCalls == todo = <<>> /\ sound => busy = Idle /\ rww

(* The Writer over the hardware implements the paged store: words, page buffer, erase and write,
   preserving and automatic page writes come out as one change of one page, whenever power fails or
   a command is lost. *)
Store == INSTANCE PagedStore WITH
  Contents <- Values,
  config <- [autoErase |-> config.autoErase, preserveUnset |-> config.preserveUnset],
  store <- IF before = Closed THEN flash ELSE [flash EXCEPT ![writer.page] = before],
  page <- writer.page
StoreImplemented == Store!Spec
=============================================================================
