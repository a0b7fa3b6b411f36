------------------------------ MODULE Cholesky ------------------------------
(***************************************************************************)
(* The blocked Cholesky factorization of examples/cholesky: its kernels in *)
(* the order of the sequential program, and what the two parallel versions *)
(* declare about them.  A kernel is told by the blocks that it reads and   *)
(* the one that it updates.                                                *)
(***************************************************************************)
EXTENDS Integers, SequencesExt

\* The loops of the examples: F(a), F(a + 1), ... F(b) one after the other.
For(a, b, F(_)) == FlattenSeq([n \in 1..(b - a + 1) |-> F(a + n - 1)])

Kernel(in, inout) == [in |-> in, inout |-> inout]

Potrf(i)      == Kernel({}, <<i, i>>)
Trsm(i, j)    == Kernel({<<i, i>>}, <<i, j>>)
Gemm(i, k, j) == Kernel({<<i, k>>, <<i, j>>}, <<k, j>>)
Syrk(i, j)    == Kernel({<<i, j>>}, <<j, j>>)

\* cholesky() of the sequential version, and of the others.
Factorization(blocks) ==
  LET Row(i, j)   == For(i + 1, j - 1, LAMBDA k : <<Gemm(i, k, j)>>) \o <<Syrk(i, j)>>
      Column(i) == <<Potrf(i)>>
                   \o For(i + 1, blocks - 1, LAMBDA j : <<Trsm(i, j)>>)
                   \o For(i + 1, blocks - 1, LAMBDA j : Row(i, j))
  IN For(0, blocks - 1, LAMBDA i : Column(i))

\* What a kernel asks the dependency grid for: all its blocks.
Blocks(kernel) == kernel.in \cup {kernel.inout}
\* As if trsm, gemm and syrk looked up the blocks they read, and not their own.
ReadBlocks(kernel) == kernel.in
Consulted(kernel) == Blocks(kernel)

\* Version with TaskR: the grid remembers, per block, the tasks that update it.
DependencyGrid(kernels, n, block) == {m \in 1..(n - 1) : kernels[m].inout = block}
TaskRDependencies(kernels, n) ==
  UNION {DependencyGrid(kernels, n, block) : block \in Consulted(kernels[n])}

\* Version with OmpSs-2: "in" comes after the last "inout" of a block, and
\* "inout" also after the "in"s since then.
LastOf(s) == {m \in s : \A o \in s : o <= m}
OmpSsDependencies(kernels, n) ==
  LET Writer(block) == LastOf(DependencyGrid(kernels, n, block))
      ReadersSince(block) ==
        {m \in 1..(n - 1) : block \in kernels[m].in /\ \A w \in Writer(block) : w < m}
  IN (UNION {Writer(block) : block \in Blocks(kernels[n])}) \cup ReadersSince(kernels[n].inout)

=============================================================================
