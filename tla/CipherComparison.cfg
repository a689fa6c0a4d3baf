\* The two key expansions, the two encryptions, the core and the decryption
\* on real bytes.  The program ends after the comparison.
SPECIFICATION CSpec
CONSTANT Vectors <- MCVectors
INVARIANTS SboxIsTable KeysAgree RoundsAgree DecryptRetraces
CHECK_DEADLOCK FALSE
