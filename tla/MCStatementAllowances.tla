-------------------------- MODULE MCStatementAllowances --------------------------
EXTENDS StatementAllowances

CONSTANTS w, a, b, d, full, lite

TwoCollections == <<full, lite>>
OneEach        == [c \in {full, lite} |-> 1]
FirstSlot      == {[wallet |-> w, collection |-> full, seq |-> 1]}
Promises       == <<Entry(w, WalletSso), Entry(Former, d), Entry(w, a)>>

=============================================================================
