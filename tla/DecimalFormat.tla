--------------------------- MODULE DecimalFormat ---------------------------
(***************************************************************************)
(* The wake-up token that e2_async_event_agent writes into the aperiodic   *)
(* pipe is the text snprintf(str, 32, "%u\n", ric_req_id): the decimal     *)
(* digits of the 32-bit request id followed by a newline.  Only its length *)
(* matters to the reactor, which drains the pipe in reads of               *)
(* sizeof(uint64_t) bytes (consume_fd).                                    *)
(***************************************************************************)
EXTENDS Naturals

RECURSIVE NumDigits(_)

\* Number of decimal digits "%u" prints for n (n = 0 prints "0").
NumDigits(n) == IF n < 10 THEN 1 ELSE 1 + NumDigits(n \div 10)

\* Bytes written to io.pipe.w for one aperiodic request: the return value
\* of snprintf, which is then passed as the length to write().
WakeLen(ric_req_id) == NumDigits(ric_req_id) + 1

\* Mutant: the whole pipe is drained in one read.
ReadLenAll(avail) == avail

\* Bytes one consume_fd call removes from a pipe holding `avail` bytes:
\* read(fd, &read_buf, sizeof(uint64_t)) returns at most 8.
ReadLen(avail) == IF avail < 8 THEN avail ELSE 8
=============================================================================
