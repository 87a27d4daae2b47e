------------------------------- MODULE MCMmu -------------------------------
(* Two levels of two entries: a root per address space and a shared table. *)
EXTENDS Mmu, TLC

P(flags, ppn) == [flags |-> flags \cup {"V"}, ppn |-> ppn]
None == [flags |-> {}, ppn |-> 0]

MCRoot == <<1, 2>>

\* Virtual pages 0 and 1 go through table 3, 2 and 3 through a superpage.
MCBoot == (1 :> (0 :> P({}, 3) @@ 1 :> P({"R", "W", "U"}, 4))) @@
          (2 :> (0 :> P({}, 3) @@ 1 :> None)) @@
          (3 :> (0 :> P({"R", "W", "G"}, 6) @@ 1 :> None))

\* A code page, a page taken away, a misaligned superpage, another space's page.
MCEdits == {<<3, 0, None>>, <<3, 0, P({"X", "G"}, 7)>>,
            <<1, 1, P({"R", "U"}, 5)>>, <<2, 1, P({"R", "U"}, 6)>>}
=============================================================================
