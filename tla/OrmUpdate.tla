----------------------------- MODULE OrmUpdate -----------------------------
(***************************************************************************)
(* What `repository.update(entity)` writes, for the repositories that keep *)
(* no row version and take no row lock.                                    *)
(*                                                                         *)
(* The entity a use case holds was rebuilt from an earlier SELECT.  The    *)
(* session only holds rows weakly, so `session.get` in `update` reads the  *)
(* row again; every column is then assigned from the entity, and the flush *)
(* at commit emits the columns whose value differs from that second read.  *)
(* One stored column therefore ends up as the entity's value if the entity *)
(* disagreed with the second read, and is otherwise left as the table has  *)
(* it by then.                                                             *)
(***************************************************************************)

\* One column: the value in the table, the value the second read saw, and
\* the value the entity carries.
Written(stored, read, carried) == IF carried # read THEN carried ELSE stored
=============================================================================
