------------------------------- MODULE OrderNo -------------------------------
(***************************************************************************)
(* The signed `orderNo` kept in every request file of a request queue      *)
(* (crawlee-storage/src/request_queue.rs, RequestEntry).  None stands for  *)
(* the JSON null of a handled request.  An integer n is a time in          *)
(* milliseconds whose sign says regular (n > 0) or forefront (n < 0); a    *)
(* magnitude in the future is a lock that runs until that moment.          *)
(*                                                                         *)
(* Times are unbounded integers here: the code adds a lock to the clock in *)
(* i64, which is out of range only for durations of 10^8 years.            *)
(***************************************************************************)
EXTENDS Integers

CONSTANT None               \* order_no: None, the request is handled

ASSUME NoneAssumption == None \notin Int

Orders == Int \cup {None}

\* is_locked_order(order_no, now)
IsLockedOrder(n, now) == n > now \/ n < -now

\* calculate_order_no(forefront), with the clock's reading as a parameter
CalculateOrderNo(forefront, now) == IF forefront THEN -now ELSE now

\* magnitude * sign, the sign taken from an earlier orderNo
WithSignOf(n, magnitude) == IF n > 0 THEN magnitude ELSE -magnitude

\* Mutants of LockOrder: the lock added to the old orderNo; seconds for milliseconds.
LockOrderFromOld(n, now, lockMillis) == n + WithSignOf(n, now + lockMillis)
LockOrderInSeconds(n, now, lockMillis) == WithSignOf(n, now + 1000 * lockMillis)

\* the orderNo fetch_next_request writes to lock a request it found at n
LockOrder(n, now, lockMillis) == WithSignOf(n, now + lockMillis)

\* the orderNo prolong_request_lock writes over the held lock n
ExtendedOrder(n, extension) == WithSignOf(n, (IF n < 0 THEN -n ELSE n) + extension)

=============================================================================
