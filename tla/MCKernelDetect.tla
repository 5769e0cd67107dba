--------------------------- MODULE MCKernelDetect ---------------------------
(* KernelDetect on releases put together from a first number and a rest, with  *)
(* the newline that ends the file.  85 is more than U32_MAX, 80.               *)
EXTENDS KernelDetect

CONSTANTS t1, t2

\* "5", "8", "05", "85" and nothing.
MCMajors == {<<53>>, <<56>>, <<48, 53>>, <<56, 53>>, <<>>}

\* "", ".", ".5", ".8", ".8.0", ".5.8-x", ".85", ".8.85", ".x", ".8-x", "-8", "x".
MCRests ==
    { <<>>, <<46>>, <<46, 53>>, <<46, 56>>, <<46, 56, 46, 48>>, <<46, 53, 46, 56, 45, 120>>,
      <<46, 56, 53>>, <<46, 56, 46, 56, 53>>, <<46, 120>>, <<46, 56, 45, 120>>, <<45, 56>>, <<120>> }

MCOsreleases == {major \o rest \o <<10>> : major \in MCMajors, rest \in MCRests}
==============================================================================
