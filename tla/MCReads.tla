------------------------------ MODULE MCReads -------------------------------
\* Instances of Reads: the targets are the strings the code has for collections.
EXTENDS Reads
=============================================================================
