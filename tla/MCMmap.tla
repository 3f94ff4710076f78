------------------------------ MODULE MCMmap -------------------------------
EXTENDS Mmap

\* The payload's view of its pages, kept in a variable so that it is computed
\* once for each state.
VARIABLE seen

MCInit == Init /\ seen = Seen
MCNext == Next /\ seen' = Seen'
MCSpec == MCInit /\ [][MCNext]_<<vars, seen>>

AS == INSTANCE AddressSpace WITH Pages <- GuestPages, space <- seen

\* The region lists with their lazy zeroing implement a row of pages: every call
\* of km_mmap.c does to the pages in its range what mmap(2) says, new anonymous
\* memory is zero whatever the pages held before, what was written stays, and no
\* call disturbs a page outside its range.
ImplementsAddressSpace == AS!Spec
=============================================================================
