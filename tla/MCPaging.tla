------------------------------ MODULE MCPaging ------------------------------
(* Small instances of Paging for TLC: limits 20 and 100 become 2 and 3.    *)
EXTENDS PagingInvariant, TLC

CONSTANTS r1, r2, r3, r4

\* ListMessages, ListToolCalls and ListPolicyRejects in MySQL; the MemoryStore.
AllLists ==
  {[durable |-> TRUE, newestFirst |-> FALSE],
   [durable |-> TRUE, newestFirst |-> TRUE],
   [durable |-> FALSE, newestFirst |-> FALSE]}

\* Nothing, a word, out of range on both sides, and limits in range.
SomeLimits == {NoNumber, -1, 1, 3, 4}

AnyOffset == {NoNumber, -1, 0}

AlikeRows == Permutations(Rows)
=============================================================================
