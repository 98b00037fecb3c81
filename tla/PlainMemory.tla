----------------------------- MODULE PlainMemory -----------------------------
(***************************************************************************)
(* What paddr_read and paddr_write promise, and do without CACHE_ENABLED:  *)
(* a read returns the bytes written last.                                  *)
(***************************************************************************)
EXTENDS Naturals

CONSTANTS Addrs,      \* addresses of bytes
          Slot(_, _), \* Slot(a, i): the address i bytes behind a
          Byte,
          Lens        \* lengths of an access

VARIABLES mem,
          ret         \* what the last read returned

Init == mem \in [Addrs -> Byte] /\ ret = <<>>

Read(a, len) ==
  /\ ret' = [i \in 0 .. len - 1 |-> mem[Slot(a, i)]]
  /\ UNCHANGED mem

Write(a, len, d) ==
  /\ mem' \in [Addrs -> Byte]
  /\ \A i \in 0 .. len - 1 : mem'[Slot(a, i)] = d[i]
  /\ \A x \in Addrs : (\A i \in 0 .. len - 1 : Slot(a, i) # x) => mem'[x] = mem[x]
  /\ UNCHANGED ret

Next ==
  \E a \in Addrs, len \in Lens :
    /\ \A i \in 0 .. len - 1 : Slot(a, i) \in Addrs
    /\ \/ Read(a, len)
       \/ \E d \in [0 .. len - 1 -> Byte] : Write(a, len, d)

Spec == Init /\ [][Next]_<<mem, ret>>
=============================================================================
