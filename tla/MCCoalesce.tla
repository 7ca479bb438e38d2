----------------------------- MODULE MCCoalesce -----------------------------
EXTENDS Coalesce
MCCarried == {"dense"}
MCFamilies == <<"f1", "f2", "f3">>
MCSidecars == {"tokenizer"}
=============================================================================
