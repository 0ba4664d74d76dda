----------------------------- MODULE MCSettings -----------------------------
\* One program at a time, with a key set in .env.
EXTENDS Settings

MCPreset == {"before"}
=============================================================================
