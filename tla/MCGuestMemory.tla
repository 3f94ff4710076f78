---------------------------- MODULE MCGuestMemory ----------------------------
(* A small instance of GuestMemory: 8 GiBs of 8 large pages of 4 pages, and  *)
(* arguments on both sides of large pages, of GiBs and of regions.           *)
EXTENDS GuestMemory

MCBrks == {7, 8, 9, 17, 32, 64, 65, 128, 129, 150, 256, 257, 350}
MCTbrks == {0, 504, 502, 494, 466, 448, 446, 400, 384, 320, 256, 254, 150}
=============================================================================
