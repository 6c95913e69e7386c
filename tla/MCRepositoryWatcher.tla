------------------------- MODULE MCRepositoryWatcher -------------------------
EXTENDS RepositoryWatcher
=============================================================================
