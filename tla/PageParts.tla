------------------------------ MODULE PageParts ------------------------------
(***************************************************************************)
(* What a part of a page is made of, as far as the server's data goes: the *)
(* queries it keeps on display and the buttons it offers.  A form is the   *)
(* mutation behind a button: the operation it calls, what it invalidates   *)
(* or writes into the cache when that succeeds, and how its dialog closes. *)
(*                                                                         *)
(* A "held" dialog ignores every attempt to close it while its call is     *)
(* under way, a "loose" one does not, and "none" is a button that calls at *)
(* once.  A held or loose dialog is closed by the success of its call.     *)
(***************************************************************************)
EXTENDS ServerApi, QueryKeys

\* refresh: the prefixes invalidated.  puts: keys written from the answer.
Form(op, refresh, dialog) == [op |-> op, refresh |-> refresh, puts |-> {}, dialog |-> dialog]

Held(op, refresh) == Form(op, refresh, "held")
Loose(op, refresh) == Form(op, refresh, "loose")
Direct(op, refresh) == Form(op, refresh, "none")

\* setQueryData with the row that the answer carries.
Putting(form, keys) == [form EXCEPT !.puts = keys]

\* The button that leads to a form: the permission the page asks for it, the
\* states of the row it is offered for, and those of them for which the page
\* itself says that the server will refuse.
Warning(form, perm, offered, warned) ==
    [op |-> form.op, refresh |-> form.refresh, puts |-> form.puts, dialog |-> form.dialog,
     perm |-> perm, offered |-> offered, warned |-> warned]

Button(form, perm, offered) == Warning(form, perm, offered, {})

\* A button for any row of its kind, or one that needs no row.
Always(form, perm) == Button(form, perm, RowStates[form.op.on])

Part(shows, does) == [shows |-> shows, does |-> does]
Shows(queries) == Part(queries, {})

\* What is on one page: the page, its tabs, drawers and dialogs.
Screen(parts) == [shows |-> UNION {p.shows : p \in parts}, does |-> UNION {p.does : p \in parts}]
=============================================================================
