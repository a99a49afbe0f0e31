----------------------------- MODULE MCBringUp -----------------------------
(***************************************************************************)
(* The scenes: every driver with the SPEC; two mezzanines on a fake        *)
(* carrier that comes once; and one that replugs itself.                   *)
(***************************************************************************)
EXTENDS BringUp

Scene(c, d, g, n, w) == [carrier |-> c, driver |-> d, gens |-> g, devs |-> n, writes |-> w]
MCScenes ==
    {Scene("spec", d, 1, 1, d = "fmc_write_eeprom") : d \in {"wr_nic", "fmc_chardev", "fmc_trivial", "fmc_write_eeprom"}}
    \cup {Scene("fake", d, 1, 2, FALSE) : d \in {"wr_nic", "fmc_chardev", "fmc_trivial"}}
    \cup {Scene("fake", d, 2, 1, TRUE) : d \in {"wr_nic", "fmc_chardev", "fmc_trivial"}}
    \cup {Scene("fake", "fmc_write_eeprom", 2, 2, TRUE)}
=============================================================================
